---- MODULE Spec2Model ----
(***************************************************************************)
(* Connection pool of the HTTP client (src/core/client/pool.rs).           *)
(*                                                                         *)
(* One PoolInner behind one mutex.  Every critical section of the source   *)
(* (a region between lock() and the release of the guard) is one atomic    *)
(* action; code that runs outside the lock (the first poll of a waiter's   *)
(* receiver, the drop of a receiver before clean_waiters) is a step of its *)
(* own, so that other threads interleave exactly where the source lets     *)
(* them.                                                                   *)
(***************************************************************************)
EXTENDS Integers, Sequences, FiniteSets, Bags, TLC

\* ------------------------------------------------------------------ bounds
NKeys == 3
MaxConns == 2
MaxCheckouts == 3
\* the checkouts of the specification with NKeys hosts
MaxCheckoutsHosts == 1
\* the connections of the specification with NKeys hosts
MaxConnsHosts == 3
MaxTokens == 2
\* configuration of the pool under analysis (Config, pool.rs:114-118)
MaxIdlePerHost == 1
MaxPoolSize == 2
IdleTimeout == 1
\* the specification with room for more than one idle connection per host
MaxIdleRoomy == 2
MaxCheckoutsRoomy == 2
\* header maps: names 1..NNames, up to MaxValues values a name, and
\* OriginalHeaders of up to MaxOrig names
NNames == 3
MaxValues == 2
MaxOrig == 2
MaxCheckoutsSweep == 2
MaxLayers == 2
MaxRetry == 3
MaxUserinfo == 2
MaxList == 3
MaxCalls == 2
MaxConnected == 3
MaxLines == 2
MaxElems == 2
MaxAddrs == 2
DefaultMaxRetry == 2

Keys == 1..NKeys
Vers == {"Auto", "Http2"}

VARIABLES
    max_idle_per_host, \* Config.max_idle_per_host; 0 = pool disabled (inner = None)
    connecting,        \* PoolInner.connecting : HashSet<K>
    idle,              \* PoolInner.idle : LruMap<K, Vec<Idle<T>>>, most recently used first
    waiters,           \* PoolInner.waiters : HashMap<K, VecDeque<Sender>>; a sender is named by its checkout
    tokens,            \* live Connecting values that hold a pool reference: key -> how many
    nconns,            \* how many connections the connector has made
    pooled,            \* live Pooled handles: a bag of [value, key, is_reused, pool]
    checkouts,         \* Checkout futures polled so far: [key, pc, rx, tx]
    last,              \* what the last step returned or logged when the state it left
                       \* does not show it (Quiet otherwise)
    headers,           \* the HeaderMap given to sort_headers: entries [name, values] in storage order
    orig,              \* the OriginalHeaders given to sort_headers: names in order
    before,            \* <<>>, or <<the HeaderMap as it was when sort_headers was called>>
    timer,             \* Config.timer is Some
    idle_task,         \* the IdleTask: "none" (idle_interval_ref is None), "spawned", "done" (poll returned Ready)
    inner,             \* the PoolInner behind the Arc: "alive", or "dropped" with the last Pool handle
    features,          \* the cargo features the crate is compiled with, of "decompression" and "cookies"
    config,            \* ClientBuilder.config: error is Some, and request_layers (<<>> = None, <<v>> = Some(v))
    client,            \* <<>> before build, else <<the result of build>>
    flight,            \* the request given to Client::execute, and the layers it was seen by
    attempt,           \* the request inside the retry layer: its body, budget, attempts and result
    lookup,            \* the last call of the built resolver: the name, who answered, the answer
    request,           \* the RequestBuilder made by Client::request, and what became of it
    pills,             \* the AtomicBool cells behind the Arcs of the PoisonPills, in the order of their allocation
    connected,         \* the Connected values alive: alpn, is_proxied, extra, and the cell `poisoned` points to
    parsed     \* <<>>, or <<what content_length_parse_all returned>>: <<>> is None, <<n>> is Some(n)

vars == <<max_idle_per_host, connecting, idle, waiters, tokens, nconns, pooled,
          checkouts, last, headers, orig, before, timer, idle_task, inner,
          features, config, client, flight, attempt, lookup, request,
          pills, connected, parsed>>

\* the state of the client builder, the built client and its request
builder == <<features, config, client, flight, attempt, lookup, request>>

\* the state of the pool
poolvars == <<max_idle_per_host, connecting, idle, waiters, tokens, nconns, pooled,
              checkouts, last>>

\* the state that no operation of a pool built without a timer touches
elsewhere == <<headers, orig, before, timer, idle_task, inner, builder, pills, connected, parsed>>

\* ------------------------------------------------------------ Poolable
\* A value of the pool is [id, sh, open]: the connection it stands for, whether
\* its reserve() is Shared (HTTP/2) and whether it is open.  The copies of a
\* Shared reservation are equal values; closing a connection closes them all.
is_open(v) == v.open

can_share(v) == v.sh

\* ClientBuilder::no_keepalive: pool_max_idle_per_host = 0
no_keepalive == 0

\* variant of is_enabled: Pool::new makes a PoolInner whatever the configuration
always_enabled == TRUE

\* Config::is_enabled / Pool::is_enabled
is_enabled == max_idle_per_host > 0

\* --------------------------------------------------------------- LruMap
\* The map is a sequence of [key, list], most recently used first.
LruKeys(m) == {m[i].key : i \in 1..Len(m)}

LruIndex(m, k) == CHOOSE i \in 1..Len(m) : m[i].key = k

\* LruMap::peek: no promotion
LruPeek(m, k) == IF k \in LruKeys(m) THEN m[LruIndex(m, k)].list ELSE <<>>

\* LruMap::remove
LruRemove(m, k) == SelectSeq(m, LAMBDA e : e.key # k)

\* LruMap::get / get_or_insert on a present key: the key becomes the most recent
LruPromote(m, k) == IF k \in LruKeys(m) THEN <<m[LruIndex(m, k)]>> \o LruRemove(m, k) ELSE m

\* variant of LruEvict: the key used last before the insertion is popped
LruEvictRecent(m) == IF Len(m) > MaxPoolSize THEN <<m[1]>> \o SubSeq(m, 3, Len(m)) ELSE m

\* ByLength limiter: after an insertion the oldest keys are popped while the
\* length is over the limit
LruEvict(m) == IF Len(m) > MaxPoolSize THEN SubSeq(m, 1, MaxPoolSize) ELSE m

\* LruMap::get_or_insert(key, Vec::default)
LruGetOrInsert(m, k) ==
    IF k \in LruKeys(m) THEN LruPromote(m, k)
    ELSE LruEvict(<<[key |-> k, list |-> <<>>]>> \o m)

\* the list of the most recent key replaced (a write through the &mut of get)
LruSetFront(m, list) == <<[key |-> m[1].key, list |-> list]>> \o Tail(m)

\* ----------------------------------------------------------- Expiration
\* An Idle keeps, for idle_at, its age Instant::now() - idle_at, which is what
\* the source computes from it (saturating_duration_since); ages past the timeout
\* are all alike and stop at IdleTimeout + 1.
\* variant of expires: the timeout is None
never_expires(age) == FALSE

\* Expiration::expires; the timeout is Some(IdleTimeout)
expires(age) == age > IdleTimeout

\* Idle { value, idle_at: Instant::now() }
Idle(v) == [value |-> v, age |-> 0]

\* ------------------------------------------------------------ IdlePopper
\* IdlePopper::pop: [list |-> what stays, value |-> <<>> or <<the connection>>]
\* variant of IdlePop: a sharable entry is taken like a Unique one
RECURSIVE IdlePopTakes(_)
IdlePopTakes(list) ==
    IF list = <<>> THEN [list |-> <<>>, value |-> <<>>]
    ELSE LET entry == list[Len(list)]
             rest == SubSeq(list, 1, Len(list) - 1)
         IN IF ~is_open(entry.value) THEN IdlePopTakes(rest)
            ELSE IF expires(entry.age) THEN IdlePopTakes(rest)
            ELSE [list |-> rest, value |-> <<entry.value>>]

\* variant of IdlePop: the list is searched from the front, oldest first
RECURSIVE IdlePopOldest(_)
IdlePopOldest(list) ==
    IF list = <<>> THEN [list |-> <<>>, value |-> <<>>]
    ELSE LET entry == list[1]
             rest == Tail(list)
         IN IF ~is_open(entry.value) THEN IdlePopOldest(rest)
            ELSE IF expires(entry.age) THEN IdlePopOldest(rest)
            ELSE IF can_share(entry.value)
                 THEN [list |-> Append(rest, Idle(entry.value)),
                       value |-> <<entry.value>>]
                 ELSE [list |-> rest, value |-> <<entry.value>>]

RECURSIVE IdlePop(_)
IdlePop(list) ==
    IF list = <<>> THEN [list |-> <<>>, value |-> <<>>]
    ELSE LET entry == list[Len(list)]
             rest == SubSeq(list, 1, Len(list) - 1)
         IN IF ~is_open(entry.value) THEN IdlePop(rest)
            ELSE IF expires(entry.age) THEN IdlePop(rest)
            ELSE IF can_share(entry.value)
                 THEN [list |-> Append(rest, Idle(entry.value)),
                       value |-> <<entry.value>>]
                 ELSE [list |-> rest, value |-> <<entry.value>>]

\* ---------------------------------------------------------------- senders
\* oneshot::Sender::is_closed: the receiver of checkout w was dropped
tx_is_closed(w) == checkouts[w].pc \in {"dropping", "done"}

\* variant of FeedWaiters: a Shared value is sent once, like a Unique one
FeedWaitersOnce(q, c, sent) ==
    LET live == {i \in 1..Len(q) : ~tx_is_closed(q[i])}
    IN IF live = {} THEN [q |-> <<>>, value |-> <<c>>, sent |-> sent]
       ELSE LET i == CHOOSE i \in live : \A j \in live : i <= j
            IN [q |-> SubSeq(q, i + 1, Len(q)),
                value |-> IF can_share(c) THEN <<c>> ELSE <<>>,
                sent |-> sent \cup {q[i]}]

\* variant of FeedWaiters: a Unique value is handed out like a Shared one
RECURSIVE FeedWaitersShares(_, _, _)
FeedWaitersShares(q, c, sent) ==
    IF q = <<>> THEN [q |-> q, value |-> <<c>>, sent |-> sent]
    ELSE IF tx_is_closed(Head(q)) THEN FeedWaitersShares(Tail(q), c, sent)
    ELSE FeedWaitersShares(Tail(q), c, sent \cup {Head(q)})

\* variant of FeedWaiters: no sender is tried, the value is left for the idle list
FeedWaitersNone(q, c, sent) == [q |-> q, value |-> <<c>>, sent |-> sent]

\* the waiter loop of PoolInner::put (pool.rs:321-349):
\* [q |-> what stays queued, value |-> <<>> or <<c>>, sent |-> who was sent c]
RECURSIVE FeedWaiters(_, _, _)
FeedWaiters(q, c, sent) ==
    IF q = <<>> THEN [q |-> q, value |-> <<c>>, sent |-> sent]
    ELSE IF tx_is_closed(Head(q)) THEN FeedWaiters(Tail(q), c, sent)
    ELSE IF can_share(c) THEN FeedWaiters(Tail(q), c, sent \cup {Head(q)})
    ELSE [q |-> Tail(q), value |-> <<>>, sent |-> sent \cup {Head(q)}]

\* variant of WaitersAfter: the key stays with whatever queue is left
WaitersKept(k, q) == [waiters EXCEPT ![k] = q]

\* the waiters map after the loop: the key is removed when its queue is empty
WaitersAfter(k, q) ==
    IF q = <<>> THEN [x \in DOMAIN waiters \ {k} |-> waiters[x]]
    ELSE [waiters EXCEPT ![k] = q]

\* variant of IdleInsert: the list is not compared with max_idle_per_host
IdleInsertUncapped(k, c) ==
    LET m == LruGetOrInsert(idle, k)
    IN LruSetFront(m, Append(m[1].list, Idle(c)))

\* variant of IdleInsert: the new entry goes to the front of the list
IdleInsertFront(k, c) ==
    LET m == LruGetOrInsert(idle, k)
    IN IF max_idle_per_host <= Len(m[1].list) THEN m
       ELSE LruSetFront(m, <<Idle(c)>> \o m[1].list)

\* the idle half of PoolInner::put (pool.rs:355-376)
IdleInsert(k, c) ==
    LET m == LruGetOrInsert(idle, k)
    IN IF max_idle_per_host <= Len(m[1].list) THEN m
       ELSE LruSetFront(m, Append(m[1].list, Idle(c)))

\* PoolInner::put: the state it leaves, and the trace! line of the branch that
\* dropped the value, if one did
put(k, c) ==
    IF can_share(c) /\ k \in LruKeys(idle)
    THEN [idle |-> idle, waiters |-> waiters, sent |-> {}, note |-> "existing idle HTTP/2",
          spawn |-> FALSE]
    ELSE LET fed == IF k \in DOMAIN waiters THEN FeedWaiters(waiters[k], c, {})
                    ELSE [q |-> <<>>, value |-> <<c>>, sent |-> {}]
         IN [idle |-> IF fed.value # <<>> THEN IdleInsert(k, c) ELSE idle,
             waiters |-> IF k \in DOMAIN waiters THEN WaitersAfter(k, fed.q) ELSE waiters,
             sent |-> fed.sent,
             note |-> IF fed.value # <<>>
                         /\ max_idle_per_host <= Len(LruGetOrInsert(idle, k)[1].list)
                      THEN "max idle per host"
                      ELSE IF fed.value # <<>> /\ k \notin LruKeys(idle) /\ Len(idle) >= MaxPoolSize
                      THEN "least recently used key popped"
                      ELSE "",
             spawn |-> fed.value # <<>>
                       /\ max_idle_per_host > Len(LruGetOrInsert(idle, k)[1].list)]

\* the receivers after a put sent c to the checkouts of `sent`
Deliver(chk, sent, c) ==
    [w \in DOMAIN chk |->
        IF w \in sent THEN [chk[w] EXCEPT !.rx = <<c>>, !.tx = "sent"] ELSE chk[w]]

\* variant of CancelSenders: the senders of the removed queue stay alive
SendersKept(chk, ws, k) == chk

\* the receivers after the senders queued for k were dropped unsent
CancelSenders(chk, ws, k) ==
    [w \in DOMAIN chk |->
        IF k \in DOMAIN ws /\ \E i \in 1..Len(ws[k]) : ws[k][i] = w
        THEN [chk[w] EXCEPT !.tx = "dropped"] ELSE chk[w]]

\* variant of connected_waiters: the queue of the key stays
connected_keeps_waiters(ws, k) == ws

\* PoolInner::connected: the waiters map it leaves
connected_waiters(ws, k) == [x \in DOMAIN ws \ {k} |-> ws[x]]

\* variant of clean_waiters: the whole queue of the key is removed
clean_waiters_all(k) == connected_waiters(waiters, k)

\* PoolInner::clean_waiters
clean_waiters(k) ==
    IF k \in DOMAIN waiters
    THEN WaitersAfter(k, SelectSeq(waiters[k], LAMBDA w : ~tx_is_closed(w)))
    ELSE waiters

\* ------------------------------------------------------------- HeaderMap
\* http::HeaderMap keeps its entries in a vector, one entry a name, in the
\* order in which the names were first inserted; it iterates in that order,
\* and remove() takes an entry out with Vec::swap_remove.
HNames == 1..NNames

HNamesOf(m) == [i \in 1..Len(m) |-> m[i].name]

HHas(m, n) == \E i \in 1..Len(m) : m[i].name = n

HIndex(m, n) == CHOOSE i \in 1..Len(m) : m[i].name = n

\* HeaderMap::len: the number of values
RECURSIVE HLen(_)
HLen(m) == IF m = <<>> THEN 0 ELSE Len(Head(m).values) + HLen(Tail(m))

\* HeaderMap::get_all(name), iterated
HGetAll(m, n) == IF HHas(m, n) THEN m[HIndex(m, n)].values ELSE <<>>

\* HeaderMap::append
HAppend(m, n, v) ==
    IF HHas(m, n) THEN [m EXCEPT ![HIndex(m, n)].values = Append(@, v)]
    ELSE Append(m, [name |-> n, values |-> <<v>>])

\* HeaderMap::insert: the values of the name are replaced
HInsert(m, n, v) ==
    IF HHas(m, n) THEN [m EXCEPT ![HIndex(m, n)].values = <<v>>]
    ELSE Append(m, [name |-> n, values |-> <<v>>])

\* HeaderMap::entry(name).or_insert(value)
HOrInsert(m, n, v) == IF HHas(m, n) THEN m ELSE Append(m, [name |-> n, values |-> <<v>>])

\* a header value: a text, and the base64 text after it
Text(t) == [text |-> t, token |-> <<>>]

\* HeaderMap::remove: the last entry takes the place of the removed one
HRemove(m, n) ==
    IF ~HHas(m, n) THEN m
    ELSE IF HIndex(m, n) = Len(m) THEN SubSeq(m, 1, Len(m) - 1)
    ELSE [SubSeq(m, 1, Len(m) - 1) EXCEPT ![HIndex(m, n)] = m[Len(m)]]

\* HeaderMap::drain: (Some(name), first value) and then (None, value) for
\* every further value of the name
RECURSIVE HDrain(_)
HDrain(m) ==
    IF m = <<>> THEN <<>>
    ELSE << [key |-> << Head(m).name >>, value |-> Head(m).values[1]] >>
         \o [i \in 1..(Len(Head(m).values) - 1) |-> [key |-> <<>>, value |-> Head(m).values[i + 1]]]
         \o HDrain(Tail(m))

\* the first loop of sort_headers (headers.rs:156-161)
RECURSIVE SortListed(_, _, _)
SortListed(h, sorted, names) ==
    IF names = <<>> THEN [headers |-> h, sorted |-> sorted]
    ELSE LET n == Head(names)
             vs == HGetAll(h, n)
             RECURSIVE AppendAll(_, _)
             AppendAll(m, i) == IF i > Len(vs) THEN m ELSE AppendAll(HAppend(m, n, vs[i]), i + 1)
         IN SortListed(HRemove(h, n), AppendAll(sorted, 1), Tail(names))

\* the second loop of sort_headers (headers.rs:164-168)
RECURSIVE SortRest(_, _)
SortRest(sorted, pairs) ==
    IF pairs = <<>> THEN sorted
    ELSE IF Head(pairs).key # <<>>
         THEN SortRest(HAppend(sorted, Head(pairs).key[1], Head(pairs).value), Tail(pairs))
         ELSE SortRest(sorted, Tail(pairs))

\* sort_headers: the map it leaves in `headers`
sort_headers(h, o) ==
    IF HLen(h) <= 1 THEN h
    ELSE LET first == SortListed(h, <<>>, o)
         IN SortRest(first.sorted, HDrain(first.headers))

\* the header maps and the lists of the analysis
HeaderEntries == [name : HNames, values : {[i \in 1..n |-> i] : n \in 1..MaxValues}]

HeaderMaps ==
    {m \in UNION {[1..n -> HeaderEntries] : n \in 0..NNames} :
        \A i, j \in 1..Len(m) : i # j => m[i].name # m[j].name}

OrigLists == UNION {[1..n -> HNames] : n \in 0..MaxOrig}

NoHeaders == headers = <<>> /\ orig = <<>> /\ before = <<>> /\ parsed = <<>>

\* a pool built without a timer: spawn_idle_interval returns before it creates
\* the IdleTask (pool.rs:404-406)
NoTimer == timer = FALSE /\ idle_task = "none" /\ inner = "alive"

\* sort_headers(&mut headers, &orig)
SortHeaders ==
    /\ before = <<>>
    /\ headers' = sort_headers(headers, orig)
    /\ before' = <<headers>>
    /\ UNCHANGED <<orig, max_idle_per_host, connecting, idle, waiters, tokens, nconns,
                   pooled, checkouts, last, timer, idle_task, inner, builder,
                   pills, connected, parsed>>

\* ---------------------------------------------------------- ClientBuilder
\* the layers a caller may register with ClientBuilder::layer
UserLayers == {"A", "B"}

\* ServiceBuilder::new().layer(layer).service(service): the layer wraps the
\* service. A service is the sequence of its parts, the innermost first.
Wrap(layer, service) == Append(service, layer)

\* variant of Wrap: the layer is put beneath the service
WrapBeneath(layer, service) == <<layer>> \o service

\* layers.into_iter().fold(service, |client_service, layer| layer(client_service))
RECURSIVE FoldLayers(_, _)
FoldLayers(service, layers) ==
    IF layers = <<>> THEN service
    ELSE FoldLayers(Wrap(Head(layers), service), Tail(layers))

\* variant of BuiltIn: the redirect layer is added after the retry layer
BuiltInRetryFirst(fs) ==
    LET s0 == <<"ClientService">>
        s1 == IF "decompression" \in fs THEN Wrap("Decompression", s0) ELSE s0
        s2 == Wrap("ResponseBodyTimeout", s1)
        s3 == IF "cookies" \in fs THEN Wrap("CookieManager", s2) ELSE s2
        s4 == Wrap("Retry", s3)
    IN Wrap("FollowRedirect", s4)

\* the part of ClientBuilder::build before the match on request_layers
BuiltIn(fs) ==
    LET s0 == <<"ClientService">>
        s1 == IF "decompression" \in fs THEN Wrap("Decompression", s0) ELSE s0
        s2 == Wrap("ResponseBodyTimeout", s1)
        s3 == IF "cookies" \in fs THEN Wrap("CookieManager", s2) ELSE s2
        s4 == Wrap("FollowRedirect", s3)
    IN Wrap("Retry", s4)

\* variant of Outer: the request-start timeout is added before the user layers
OuterTimeoutFirst(service, layers) ==
    Wrap("MapErr", FoldLayers(Wrap("Timeout", service), layers))

\* both arms of the match on request_layers: the user layers if any, then
\* TimeoutLayer, then map_err(map_timeout_to_request_error)
Outer(service, layers) ==
    Wrap("MapErr", Wrap("Timeout", FoldLayers(service, layers)))

\* TlsConfig::default(): its ALPN list has h2 and http/1.1
DefaultTls == [alpn_protos |-> << <<"h2", "http/1.1">> >>, profile |-> "default"]

\* the config of ClientBuilder::new()
NewConfig ==
    [error |-> FALSE, request_layers |-> <<>>, http2_max_retry |-> DefaultMaxRetry,
     dns_resolver |-> <<>>, dns_overrides |-> [d \in {} |-> <<>>],
     headers |-> <<>>, original_headers |-> <<>>, http_version_pref |-> "All",
     http1_config |-> "default", http2_config |-> "default", tls_config |-> DefaultTls]

\* ClientBuilder::user_agent: a value that is no HeaderValue is recorded as
\* the error of the builder
UserAgent(value) ==
    /\ client = <<>>
    /\ config' = IF value.text = "bad\nvalue" THEN [config EXCEPT !.error = TRUE]
                 ELSE [config EXCEPT !.headers = HInsert(@, "user-agent", value)]
    /\ UNCHANGED <<features, client, flight, attempt, lookup, request>>

\* ClientBuilder::http1_only and ClientBuilder::http2_only
HttpOnly(pref) ==
    /\ client = <<>>
    /\ config' = [config EXCEPT !.http_version_pref = pref]
    /\ UNCHANGED <<features, client, flight, attempt, lookup, request>>

\* what an EmulationProviderFactory makes: every field None (<<>>) or Some
Emulations ==
    [default_headers : {<<>>, << <<>> >>, << <<[name |-> "accept", values |-> <<Text("text")>>]>> >>},
     original_headers : {<<>>, << <<"user-agent", "accept">> >>},
     http1_config : {<<>>, <<"emulated">>},
     http2_config : {<<>>, <<"emulated">>},
     tls_config : {<<>>} \cup {<<[alpn_protos |-> a, profile |-> "emulated"]>> :
                                  a \in {<<>>, << <<"http/1.1">> >>}}]

\* an emulation whose headers are merged into those of the builder
EmulationMerged(e) ==
    /\ client = <<>>
    /\ config' = [config EXCEPT
                    !.headers = IF e.default_headers = <<>> \/ e.default_headers[1] = <<>> THEN @
                                ELSE HInsert(@, e.default_headers[1][1].name, e.default_headers[1][1].values[1]),
                    !.original_headers = IF e.original_headers # <<>> THEN e.original_headers ELSE @,
                    !.http1_config = IF e.http1_config # <<>> THEN e.http1_config[1] ELSE @,
                    !.http2_config = IF e.http2_config # <<>> THEN e.http2_config[1] ELSE @,
                    !.tls_config = IF e.tls_config # <<>> THEN e.tls_config[1] ELSE @]
    /\ UNCHANGED <<features, client, flight, attempt, lookup, request>>

\* ClientBuilder::emulation: each field that is Some is swapped in
Emulation(e) ==
    /\ client = <<>>
    /\ config' = [config EXCEPT
                    !.headers = IF e.default_headers # <<>> THEN e.default_headers[1] ELSE @,
                    !.original_headers = IF e.original_headers # <<>> THEN e.original_headers ELSE @,
                    !.http1_config = IF e.http1_config # <<>> THEN e.http1_config[1] ELSE @,
                    !.http2_config = IF e.http2_config # <<>> THEN e.http2_config[1] ELSE @,
                    !.tls_config = IF e.tls_config # <<>> THEN e.tls_config[1] ELSE @]
    /\ UNCHANGED <<features, client, flight, attempt, lookup, request>>

\* build that sets the ALPN list only of a TLS config that has none
alpn_protos_unset(cfg) ==
    IF cfg.tls_config.alpn_protos # <<>> THEN cfg.tls_config.alpn_protos
    ELSE IF cfg.http_version_pref = "Http1" THEN << <<"http/1.1">> >>
    ELSE IF cfg.http_version_pref = "Http2" THEN << <<"h2">> >>
    ELSE cfg.tls_config.alpn_protos

\* config.tls_config.alpn_protos as build gives it to the connector
alpn_protos(cfg) ==
    IF cfg.http_version_pref = "Http1" THEN << <<"http/1.1">> >>
    ELSE IF cfg.http_version_pref = "Http2" THEN << <<"h2">> >>
    ELSE cfg.tls_config.alpn_protos

\* ClientBuilder::http2_max_retry
Http2MaxRetry(max) ==
    /\ client = <<>>
    /\ config' = [config EXCEPT !.http2_max_retry = max]
    /\ UNCHANGED <<features, client, flight, attempt, lookup, request>>

\* the domains, the socket addresses and the resolvers of the model
Domains == {"a.test", "b.test"}

SocketAddrs == 1..MaxAddrs

AddrLists == {<<>>} \cup {<<x>> : x \in SocketAddrs} \cup {<<x, y>> : x, y \in SocketAddrs}

\* HashMap::insert(domain, addrs)
MapInsert(m, d, v) == [x \in DOMAIN m \cup {d} |-> IF x = d THEN v ELSE m[x]]

\* ClientBuilder::resolve_to_addrs; resolve(domain, addr) is resolve_to_addrs(domain, &[addr])
ResolveToAddrs(d, addrs) ==
    /\ client = <<>>
    /\ config' = [config EXCEPT !.dns_overrides = MapInsert(@, d, addrs)]
    /\ UNCHANGED <<features, client, flight, attempt, lookup, request>>

\* ClientBuilder::dns_resolver
DnsResolver(r) ==
    /\ client = <<>>
    /\ config' = [config EXCEPT !.dns_resolver = <<r>>]
    /\ UNCHANGED <<features, client, flight, attempt, lookup, request>>

\* variant of BuildResolver: a resolver supplied with dns_resolver is used bare
BuildResolverBare(cfg) ==
    LET base == IF cfg.dns_resolver # <<>> THEN cfg.dns_resolver[1] ELSE "GaiResolver"
    IN IF DOMAIN cfg.dns_overrides # {} /\ cfg.dns_resolver = <<>>
       THEN [dns_resolver |-> base, overrides |-> <<cfg.dns_overrides>>]
       ELSE [dns_resolver |-> base, overrides |-> <<>>]

\* the resolver of ClientBuilder::build: the supplied one or GaiResolver,
\* wrapped in DnsResolverWithOverrides when there are overrides
BuildResolver(cfg) ==
    LET base == IF cfg.dns_resolver # <<>> THEN cfg.dns_resolver[1] ELSE "GaiResolver"
    IN IF DOMAIN cfg.dns_overrides # {}
       THEN [dns_resolver |-> base, overrides |-> <<cfg.dns_overrides>>]
       ELSE [dns_resolver |-> base, overrides |-> <<>>]

\* variant of resolve_answer: the wrapped resolver is asked first
resolve_wrapped_first(r, name, answer) == [by |-> r.dns_resolver, addrs |-> answer]

\* DnsResolverWithOverrides::resolve, or the bare resolver: who answers, and
\* what; answer is what the wrapped resolver says when it is called
resolve_answer(r, name, answer) ==
    IF r.overrides # <<>> /\ name \in DOMAIN r.overrides[1]
    THEN [by |-> "overrides", addrs |-> r.overrides[1][name]]
    ELSE [by |-> r.dns_resolver, addrs |-> answer]

NoLookup == [name |-> "", by |-> "", addrs |-> <<>>, answer |-> <<>>]

\* DynResolver::call(name) of the built client
DynResolverCall(name, answer) ==
    /\ client # <<>> /\ client[1].ref # "Err"
    /\ lookup = NoLookup
    /\ LET a == resolve_answer(client[1].resolver, name, answer)
       IN lookup' = [name |-> name, by |-> a.by, addrs |-> a.addrs, answer |-> answer]
    /\ UNCHANGED <<features, config, client, flight, attempt, request>>

\* variant of RetryBudget: the policy is built with the default budget
RetryBudgetDefault(cfg) == DefaultMaxRetry

\* Http2RetryPolicy::new(config.http2_max_retry)
RetryBudget(cfg) == cfg.http2_max_retry

\* ClientBuilder::layer
Layer(l) ==
    /\ client = <<>>
    /\ (IF config.request_layers = <<>> THEN 0 ELSE Len(config.request_layers[1])) < MaxLayers
    /\ config' = [config EXCEPT !.request_layers =
                     IF @ = <<>> THEN << <<l>> >> ELSE << Append(@[1], l) >>]
    /\ UNCHANGED <<features, client, flight, attempt, lookup, request>>

\* ClientBuilder::build
Build ==
    /\ client = <<>>
    /\ client' = IF config.error
                 THEN << [ref |-> "Err", service |-> <<>>, retry |-> 0,
                          resolver |-> BuildResolver(NewConfig), alpn_protos |-> <<>>] >>
                 ELSE IF config.request_layers # <<>>
                 THEN << [ref |-> "Boxed",
                          service |-> Outer(BuiltIn(features), config.request_layers[1]),
                          retry |-> RetryBudget(config),
                          resolver |-> BuildResolver(config),
                          alpn_protos |-> alpn_protos(config)] >>
                 ELSE << [ref |-> "Generic", service |-> Outer(BuiltIn(features), <<>>),
                          retry |-> RetryBudget(config),
                          resolver |-> BuildResolver(config),
                          alpn_protos |-> alpn_protos(config)] >>
    /\ UNCHANGED <<features, config, flight, attempt, lookup, request>>

NoFlight == [dir |-> "none", at |-> 0, down |-> <<>>, up |-> <<>>]

\* Client::execute: service.clone().oneshot(req) calls the outermost part
Execute ==
    /\ client # <<>> /\ client[1].ref # "Err"
    /\ flight.dir = "none"
    /\ flight' = [flight EXCEPT !.dir = "request", !.at = Len(client[1].service)]
    /\ UNCHANGED <<features, config, client, attempt, lookup, request>>

\* Service::call of the part the request is at: it sees the request and calls
\* the service it wraps; the innermost part answers
Call ==
    /\ flight.dir = "request"
    /\ flight' = [flight EXCEPT !.down = Append(@, client[1].service[flight.at]),
                                !.dir = IF flight.at = 1 THEN "response" ELSE "request",
                                !.at = IF flight.at = 1 THEN 1 ELSE @ - 1]
    /\ UNCHANGED <<features, config, client, attempt, lookup, request>>

\* the future of the part the response is at resolves: it sees the response
\* and hands it to the part that wraps it
Resolve ==
    /\ flight.dir = "response"
    /\ flight' = [flight EXCEPT !.up = Append(@, client[1].service[flight.at]),
                                !.dir = IF flight.at = Len(client[1].service) THEN "done" ELSE "response",
                                !.at = IF flight.at = Len(client[1].service) THEN @ ELSE @ + 1]
    /\ UNCHANGED <<features, config, client, attempt, lookup, request>>

\* the bodies of a request: Bytes bodies clone, streams do not
Bodies == {"empty", "bytes", "stream"}

\* what an attempt ends with: a response (of any status), or an error
Results == {"response", "5xx", "canceled before headers", "timeout", "body"}

Cloneable(body) == body \in {"empty", "bytes"}

\* the policy of the HTTP/2 retry layer
Retryable(result, body, budget) ==
    result = "canceled before headers" /\ Cloneable(body) /\ budget > 0

NoAttempt == [state |-> "none", body |-> "empty", budget |-> 0, n |-> 0, result |-> ""]

\* the retry layer is called with a request: a fresh policy with the built
\* budget, and the first attempt
RetrySend(body) ==
    /\ client # <<>> /\ client[1].ref # "Err"
    /\ attempt.state = "none"
    /\ attempt' = [state |-> "inflight", body |-> body, budget |-> client[1].retry,
                   n |-> 1, result |-> ""]
    /\ UNCHANGED <<features, config, client, flight, lookup, request>>

\* the attempt in flight ends with result r: the policy replays or returns
RetryResult(r) ==
    /\ attempt.state = "inflight"
    /\ attempt' = IF Retryable(r, attempt.body, attempt.budget)
                  THEN [attempt EXCEPT !.budget = @ - 1, !.n = @ + 1]
                  ELSE [attempt EXCEPT !.state = "returned", !.result = r]
    /\ UNCHANGED <<features, config, client, flight, lookup, request>>

\* ------------------------------------------------------- RequestBuilder
\* crate::Result<Request>
Ok(req) == [ok |-> TRUE, req |-> req]

Err(e) == [ok |-> FALSE, err |-> e]

\* percent_decode: the bytes that a percent-encoded text stands for
percent_decode(text) ==
    [i \in 1..Len(text) |-> CASE text[i] = "a" -> 97
                               [] text[i] = "%62" -> 98
                               [] text[i] = "%FF" -> 255]

\* decode_utf8().ok(): Some(the text) when the bytes are UTF-8, which the
\* ASCII bytes are and a lone byte 255 is not
decode_utf8(bytes) ==
    IF \A i \in 1..Len(bytes) : bytes[i] < 128 THEN <<bytes>> ELSE <<>>

\* the Urls: the userinfo is kept percent-encoded, each character a plain
\* one, the escape of an ASCII byte or the escape of a byte that no UTF-8
\* text holds; Url::password is None for an empty password
Urls ==
    LET texts == UNION {[1..n -> {"a", "%62", "%FF"}] : n \in 0..MaxUserinfo}
    IN [username : texts, password : {<<>>} \cup {<<p>> : p \in texts \ {<<>>}},
        query : {<<>>}]

\* extract_authority: the Url it leaves and the Option it returns
extract_authority(url) ==
    LET username == decode_utf8(percent_decode(url.username))
        password == IF url.password = <<>> THEN <<>>
                    ELSE decode_utf8(percent_decode(url.password[1]))
    IN IF username = <<>> THEN [url |-> url, auth |-> <<>>]
       ELSE IF username[1] # <<>> \/ password # <<>>
       THEN [url |-> [url EXCEPT !.username = <<>>, !.password = <<>>],
             auth |-> << [username |-> username[1], password |-> password] >>]
       ELSE [url |-> url, auth |-> <<>>]

\* base64 of bytes, as sextets; 64 stands for the padding character
RECURSIVE base64(_)
base64(b) ==
    IF b = <<>> THEN <<>>
    ELSE IF Len(b) = 1 THEN << b[1] \div 4, (b[1] % 4) * 16, 64, 64 >>
    ELSE IF Len(b) = 2
    THEN << b[1] \div 4, (b[1] % 4) * 16 + (b[2] \div 16), (b[2] % 16) * 4, 64 >>
    ELSE << b[1] \div 4, (b[1] % 4) * 16 + (b[2] \div 16),
            (b[2] % 16) * 4 + (b[3] \div 64), b[3] % 64 >>
         \o base64(SubSeq(b, 4, Len(b)))

\* util::basic_auth: "Basic " and the base64 of username, a colon and the
\* password when there is one
basic_auth(username, password) ==
    [text |-> "Basic ",
     token |-> base64(username \o <<58>> \o (IF password = <<>> THEN <<>> ELSE password[1]))]

\* header_operation that records the error of its arguments whatever the
\* request is
header_operation_unguarded(r, key, value, sensitive, overwrite, or_insert) ==
    IF key = "bad name" THEN Err("header name")
    ELSE IF value.text = "bad\nvalue" THEN Err("header value")
    ELSE IF ~r.ok THEN r
    ELSE LET v == [value |-> value, sensitive |-> sensitive]
         IN Ok([r.req EXCEPT !.headers = IF or_insert THEN HOrInsert(@, key, v)
                                         ELSE IF overwrite THEN HInsert(@, key, v)
                                         ELSE HAppend(@, key, v)])

\* RequestBuilder::header_operation: self.request as it leaves it;
\* HeaderName::try_from refuses a name with a space and HeaderValue::try_from
\* a value with a line feed
header_operation(r, key, value, sensitive, overwrite, or_insert) ==
    IF ~r.ok THEN r
    ELSE IF key = "bad name" THEN Err("header name")
    ELSE IF value.text = "bad\nvalue" THEN Err("header value")
    ELSE LET v == [value |-> value, sensitive |-> sensitive]
         IN Ok([r.req EXCEPT !.headers = IF or_insert THEN HOrInsert(@, key, v)
                                         ELSE IF overwrite THEN HInsert(@, key, v)
                                         ELSE HAppend(@, key, v)])

\* RequestBuilder::basic_auth
rb_basic_auth(r, username, password) ==
    header_operation(r, "authorization", basic_auth(username, password), TRUE, TRUE, FALSE)

\* Request::new
Request_new(url) == [url |-> url, headers |-> <<>>, body |-> <<>>]

\* RequestBuilder::new: self.request as it leaves it
RequestBuilder_new(r) ==
    IF ~r.ok THEN r
    ELSE LET x == extract_authority(r.req.url)
             stripped == Ok([r.req EXCEPT !.url = x.url])
         IN IF x.auth # <<>>
            THEN rb_basic_auth(stripped, x.auth[1].username, x.auth[1].password)
            ELSE stripped

\* no RequestBuilder
NoRequest == [state |-> "none", given |-> <<>>, request |-> Err(""), calls |-> 0, pending |-> ""]

\* what is given to Client::request: <<the Url that into_url makes of it>>, or
\* <<>> when into_url refuses it
IntoUrls == {<<>>} \cup {<<u>> : u \in Urls}

\* Client::request(method, url)
ClientRequest(url) ==
    /\ client # <<>> /\ client[1].ref # "Err"
    /\ request.state = "none"
    /\ request' = [request EXCEPT
                     !.state = "builder", !.given = url,
                     !.request = RequestBuilder_new(IF url = <<>> THEN Err("url")
                                                    ELSE Ok(Request_new(url[1])))]
    /\ UNCHANGED <<features, config, client, flight, attempt, lookup>>

\* what is given to query, form and json: what serialization returns
Serialized == {[ok |-> TRUE, out |-> <<>>], [ok |-> TRUE, out |-> <<"k=v">>],
               [ok |-> FALSE, out |-> <<>>]}

\* RequestBuilder::query: the pairs are appended to the query of the Url, and
\* a query left empty is taken out
query(r, q) ==
    IF ~r.ok THEN r
    ELSE IF ~q.ok THEN Err("query")
    ELSE LET pairs == (IF r.req.url.query = <<>> THEN <<>> ELSE r.req.url.query[1]) \o q.out
         IN Ok([r.req EXCEPT !.url.query = IF pairs = <<>> THEN <<>> ELSE <<pairs>>])

\* RequestBuilder::form and RequestBuilder::json, with their content type
form(r, f, content_type) ==
    IF ~r.ok THEN r
    ELSE IF ~f.ok THEN Err(IF content_type = "application/json" THEN "json" ELSE "form")
    ELSE Ok([r.req EXCEPT !.headers = HOrInsert(@, "content-type",
                                                [value |-> Text(content_type), sensitive |-> FALSE]),
                          !.body = <<f.out>>])

\* RequestBuilder::body
rb_body(r, b) == IF ~r.ok THEN r ELSE Ok([r.req EXCEPT !.body = <<b>>])

\* a call of a setter of the RequestBuilder, which leaves `new` in self.request
Setter(new) ==
    /\ request.state = "builder"
    /\ request.calls < MaxCalls
    /\ request' = [request EXCEPT !.request = new, !.calls = @ + 1]
    /\ UNCHANGED <<features, config, client, flight, attempt, lookup>>

\* RequestBuilder::build
BuildRequest ==
    /\ request.state = "builder"
    /\ request' = [request EXCEPT !.state = "built"]
    /\ UNCHANGED <<features, config, client, flight, attempt, lookup>>

\* RequestBuilder::send: Client::execute hands the request to the service,
\* an error becomes Pending::Error
Send ==
    /\ request.state = "builder"
    /\ flight.dir = "none"
    /\ request' = [request EXCEPT !.state = "sent",
                                  !.pending = IF request.request.ok THEN "Request" ELSE "Error"]
    /\ flight' = IF request.request.ok
                 THEN [flight EXCEPT !.dir = "request", !.at = Len(client[1].service)]
                 ELSE flight
    /\ UNCHANGED <<features, config, client, attempt, lookup>>

\* no client builder
NoBuilder ==
    /\ features = {}
    /\ config = NewConfig
    /\ client = <<>>
    /\ flight = NoFlight
    /\ attempt = NoAttempt
    /\ lookup = NoLookup
    /\ request = NoRequest

\* ------------------------------------------------------------- Connected
\* A Connected is [alpn, is_proxied, extra, poisoned, origin]: poisoned is the
\* place in pills of the cell its PoisonPill points to; origin records which
\* call of Connected::new the value descends from.
NoConnected == pills = <<>> /\ connected = <<>>

\* PoisonPill::poisoned: the load of the cell
poisoned(c) == pills[c.poisoned]

\* PoisonPill::poison: the store of true into the cell
poison(c) == [pills EXCEPT ![c.poisoned] = TRUE]

\* variant of clone: the copy gets a cell of its own, with the value of the
\* flag at the time of the copy
clone_detached(c) ==
    [pills |-> Append(pills, pills[c.poisoned]),
     value |-> [c EXCEPT !.poisoned = Len(pills) + 1]]

\* Connected::clone: alpn, is_proxied and extra are copied and the Arc of the
\* pill is cloned, which allocates nothing
clone(c) == [pills |-> pills, value |-> c]

\* Connected::new(): PoisonPill::healthy() allocates a cell that holds false
ConnectedNew ==
    /\ Len(connected) < MaxConnected
    /\ pills' = Append(pills, FALSE)
    /\ connected' = Append(connected, [alpn |-> "None", is_proxied |-> FALSE, extra |-> <<>>,
                                       poisoned |-> Len(pills) + 1, origin |-> Len(pills) + 1])
    /\ UNCHANGED <<poolvars, headers, orig, before, timer, idle_task, inner, builder,
                   parsed>>

\* a call of Connected::clone on the i-th value
ConnectedClone(i) ==
    /\ Len(connected) < MaxConnected
    /\ pills' = clone(connected[i]).pills
    /\ connected' = Append(connected, clone(connected[i]).value)
    /\ UNCHANGED <<poolvars, headers, orig, before, timer, idle_task, inner, builder,
                   parsed>>

\* a call of Connected::poison on the i-th value
ConnectedPoison(i) ==
    /\ pills' = poison(connected[i])
    /\ UNCHANGED <<connected, poolvars, headers, orig, before, timer, idle_task, inner,
                   builder, parsed>>

\* Connected::proxy(is_proxied) on the i-th value
ConnectedProxy(i, is_proxied) ==
    /\ connected' = [connected EXCEPT ![i].is_proxied = is_proxied]
    /\ UNCHANGED <<pills, poolvars, headers, orig, before, timer, idle_task, inner,
                   builder, parsed>>

\* Connected::negotiated_h2() on the i-th value
ConnectedNegotiatedH2(i) ==
    /\ connected' = [connected EXCEPT ![i].alpn = "H2"]
    /\ UNCHANGED <<pills, poolvars, headers, orig, before, timer, idle_task, inner,
                   builder, parsed>>

NextConnected ==
    \/ ConnectedNew
    \/ \E i \in 1..Len(connected) : ConnectedClone(i)
    \/ \E i \in 1..Len(connected) : ConnectedPoison(i)
    \/ \E i \in 1..Len(connected), b \in BOOLEAN : ConnectedProxy(i, b)
    \/ \E i \in 1..Len(connected) : ConnectedNegotiatedH2(i)

\* ------------------------------------------------------------------ Init
Op(name, k, c, w, ret) == [op |-> name, key |-> k, c |-> c, w |-> w, ret |-> ret]

Quiet == Op("", 0, 0, 0, "")

Init ==
    /\ max_idle_per_host \in {no_keepalive, MaxIdlePerHost}
    /\ connecting = {}
    /\ idle = <<>>
    /\ waiters = [k \in {} |-> <<>>]
    /\ tokens = [k \in Keys |-> 0]
    /\ nconns = 0
    /\ pooled = EmptyBag
    /\ checkouts = <<>>
    /\ last = Quiet
    /\ NoHeaders
    /\ NoTimer
    /\ NoBuilder
    /\ NoConnected

\* ------------------------------------------------------------ Connecting
\* variant of connecting_result: the connecting set is not consulted
connecting_unchecked(k, ver) ==
    IF ver = "Http2" /\ is_enabled
    THEN [connecting |-> connecting \cup {k}, token |-> <<TRUE>>]
    ELSE [connecting |-> connecting, token |-> <<FALSE>>]

\* variant of connecting_result: the version is not looked at
connecting_any_version(k, ver) ==
    IF is_enabled
    THEN IF k \notin connecting THEN [connecting |-> connecting \cup {k}, token |-> <<TRUE>>]
         ELSE [connecting |-> connecting, token |-> <<>>]
    ELSE [connecting |-> connecting, token |-> <<FALSE>>]

\* Pool::connecting: [connecting |-> the set it leaves, token |-> <<>> (None) or
\* <<whether the token holds a pool reference>> (Some)]
connecting_result(k, ver) ==
    IF ver = "Http2" /\ is_enabled
    THEN IF k \notin connecting
         THEN [connecting |-> connecting \cup {k}, token |-> <<TRUE>>]
         ELSE [connecting |-> connecting, token |-> <<>>]
    ELSE [connecting |-> connecting, token |-> <<FALSE>>]

\* A token without a pool reference has no state but its key, and one can
\* always be made (connecting(k, Auto)): only the tokens that hold a pool
\* reference are counted.
AddToken(k, r) ==
    IF r.token = <<TRUE>> THEN [tokens EXCEPT ![k] = @ + 1] ELSE tokens

\* pool.connecting(key, ver)
Connecting(k, ver) ==
    LET r == connecting_result(k, ver)
    IN /\ r.token = <<TRUE>> => tokens[k] < MaxTokens
       /\ connecting' = r.connecting
       /\ tokens' = AddToken(k, r)
       /\ last' = Quiet
       /\ UNCHANGED <<max_idle_per_host, idle, waiters, nconns, pooled, checkouts>>

\* connecting.alpn_h2(&pool) on a token without a pool reference: the token is
\* consumed and pool.connecting(key, Http2) is returned
AlpnH2(k) ==
    LET r == connecting_result(k, "Http2")
    IN /\ r.token = <<TRUE>> => tokens[k] < MaxTokens
       /\ connecting' = r.connecting
       /\ tokens' = AddToken(k, r)
       /\ last' = Quiet
       /\ UNCHANGED <<max_idle_per_host, idle, waiters, nconns, pooled, checkouts>>

\* Drop for Connecting; p says whether the token holds a pool reference, and
\* with one the drop runs PoolInner::connected
DropConnecting(k, p) ==
    /\ p => tokens[k] > 0
    /\ IF p
       THEN /\ tokens' = [tokens EXCEPT ![k] = @ - 1]
            /\ IF inner = "alive"
               THEN /\ connecting' = connecting \ {k}
                    /\ waiters' = connected_waiters(waiters, k)
                    /\ checkouts' = CancelSenders(checkouts, waiters, k)
               ELSE UNCHANGED <<connecting, waiters, checkouts>>
       ELSE UNCHANGED <<tokens, connecting, waiters, checkouts>>
    /\ last' = IF p /\ inner = "alive" /\ k \notin connecting
               THEN Op("drop_connecting", k, 0, 0, "debug_assert") ELSE Quiet
    /\ UNCHANGED <<max_idle_per_host, idle, nconns, pooled>>

\* ---------------------------------------------------------------- Pooled
Handle(c, k, reused, pool) == [value |-> c, key |-> k, is_reused |-> reused, pool |-> pool]

\* variant of reuse: the handle says it is new
reuse_as_new(k, c) == Handle(c, k, FALSE, ~can_share(c) /\ is_enabled)

\* variant of reuse: every handle of an enabled pool refers to the pool
reuse_with_pool(k, c) == Handle(c, k, TRUE, is_enabled)

\* Pool::reuse
reuse(k, c) == Handle(c, k, TRUE, ~can_share(c) /\ is_enabled)

\* pool.pooled(connecting, value) for a new connection; sh says whether its
\* reserve() is Shared, p whether the token holds a pool reference.  The
\* transport client submits an HTTP/2 connection with a token of Http2 (it
\* calls alpn_h2 first when ALPN chose h2) and an HTTP/1 connection with a
\* token of Auto.
Pooled(k, p, sh) ==
    LET c == [id |-> nconns + 1, sh |-> sh, open |-> TRUE]
        r == put(k, c)
    IN /\ p => tokens[k] > 0
       /\ is_enabled => (p <=> sh)
       /\ ~is_enabled => ~p
       /\ nconns' = nconns + 1
       /\ IF is_enabled /\ sh
          THEN /\ idle' = r.idle
               /\ tokens' = [tokens EXCEPT ![k] = @ - 1]
               /\ connecting' = connecting \ {k}
               /\ waiters' = connected_waiters(r.waiters, k)
               /\ checkouts' = CancelSenders(Deliver(checkouts, r.sent, c), r.waiters, k)
               /\ pooled' = pooled (+) SetToBag({Handle(c, k, FALSE, FALSE)})
          ELSE /\ pooled' = pooled (+) SetToBag({Handle(c, k, FALSE, is_enabled)})
               /\ UNCHANGED <<idle, tokens, connecting, waiters, checkouts>>
       /\ last' = IF is_enabled /\ sh /\ r.note # ""
                  THEN Op("pooled", k, c.id, 0, r.note) ELSE Quiet
       /\ UNCHANGED <<max_idle_per_host>>

\* variant of drop_puts: the value is not asked whether it is open
drop_puts_closed(h) == h.pool

\* variant of drop_puts: the pool reference of the handle always upgrades
drop_puts_upgraded(h) == is_open(h.value) /\ h.pool

\* Drop for Pooled passes the value to PoolInner::put when the value is open
\* and the pool reference upgrades (pool.rs:530-545)
drop_puts(h) == is_open(h.value) /\ h.pool /\ inner = "alive"

\* Drop for Pooled
DropPooled(h) ==
    LET r == put(h.key, h.value)
    IN /\ BagIn(h, pooled)
       /\ pooled' = pooled (-) SetToBag({h})
       /\ IF drop_puts(h)
          THEN /\ idle' = r.idle
               /\ waiters' = r.waiters
               /\ checkouts' = Deliver(checkouts, r.sent, h.value)
          ELSE UNCHANGED <<idle, waiters, checkouts>>
       /\ last' = IF ~is_open(h.value) /\ h.pool
                  THEN Op("drop_pooled", h.key, h.value.id, 0, "closed")
                  ELSE IF drop_puts(h) /\ r.note # "" THEN Op("drop_pooled", h.key, h.value.id, 0, r.note)
                  ELSE Quiet
       /\ UNCHANGED <<max_idle_per_host, connecting, tokens, nconns>>

\* ----------------------------------------------------------------- Close
\* every value that stands for connection id
Values ==
    {h.value : h \in BagToSet(pooled)}
    \cup UNION {{idle[i].list[j].value : j \in 1..Len(idle[i].list)} : i \in 1..Len(idle)}
    \cup {checkouts[w].rx[1] : w \in {x \in 1..Len(checkouts) : checkouts[x].rx # <<>>}}

CloseValue(v, id) == IF v.id = id THEN [v EXCEPT !.open = FALSE] ELSE v

RECURSIVE CloseBag(_, _, _)
CloseBag(b, hs, id) ==
    IF hs = {} THEN EmptyBag
    ELSE LET h == CHOOSE x \in hs : TRUE
         IN [x \in {[h EXCEPT !.value = CloseValue(h.value, id)]} |-> b[h]]
            (+) CloseBag(b, hs \ {h}, id)

\* the peer closes connection id, or a layer poisons it: is_open() turns false
\* on every copy
Close(id) ==
    /\ \E v \in Values : v.id = id /\ v.open
    /\ idle' = [i \in 1..Len(idle) |->
                  [key |-> idle[i].key,
                   list |-> [j \in 1..Len(idle[i].list) |->
                              [idle[i].list[j] EXCEPT !.value = CloseValue(@, id)]]]]
    /\ checkouts' = [w \in 1..Len(checkouts) |->
                       [checkouts[w] EXCEPT !.rx = IF @ = <<>> THEN @ ELSE <<CloseValue(@[1], id)>>]]
    /\ pooled' = CloseBag(pooled, BagToSet(pooled), id)
    /\ last' = Quiet
    /\ UNCHANGED <<max_idle_per_host, connecting, waiters, tokens, nconns>>

\* time passes: every idle entry is one unit older
Older(e) == [e EXCEPT !.age = IF @ > IdleTimeout THEN @ ELSE @ + 1]

Tick ==
    /\ idle' = [i \in 1..Len(idle) |->
                  [key |-> idle[i].key,
                   list |-> [j \in 1..Len(idle[i].list) |-> Older(idle[i].list[j])]]]
    /\ idle' # idle
    /\ last' = Quiet
    /\ UNCHANGED <<max_idle_per_host, connecting, waiters, tokens, nconns, pooled, checkouts>>

\* ------------------------------------------------------------- Checkout
\* pc: "registered" (sender queued, lock released, receiver not polled yet),
\*     "parked" (waiter = Some(rx), Pending returned), "dropping" (the receiver
\*     was dropped, clean_waiters has not run yet), "done".
\* rx: <<>> or <<the value sent>>;  tx: "queued", "sent", "dropped" (unsent), "none".
\* A finished future keeps nothing: Ok(handle) leaves the handle in `pooled`, and
\* an error is what `last` reports at the step that finished it.
Waiting(k) == [key |-> k, pc |-> "registered", rx |-> <<>>, tx |-> "queued"]

Finished == [key |-> 0, pc |-> "done", rx |-> <<>>, tx |-> "none"]

\* the idle map after the scan of Checkout::checkout (pool.rs:625-648), and the
\* value it found
checkout_scan(k) ==
    IF k \in LruKeys(idle)
    THEN LET m == LruPromote(idle, k)
             p == IdlePop(m[1].list)
         IN [idle |-> IF p.list = <<>> THEN LruRemove(m, k) ELSE LruSetFront(m, p.list),
             value |-> p.value]
    ELSE [idle |-> idle, value |-> <<>>]

\* the trace! line of IdlePopper::pop for a list it emptied without a find
scan_note(list) ==
    IF \E j \in 1..Len(list) : is_open(list[j].value) /\ expires(list[j].age)
    THEN "removing expired connection" ELSE "removing closed connection"

\* variant of push_waiter: push_front
push_waiter_front(k, w) ==
    IF k \in DOMAIN waiters THEN [waiters EXCEPT ![k] = <<w>> \o @]
    ELSE [x \in DOMAIN waiters \cup {k} |-> IF x = k THEN <<w>> ELSE waiters[x]]

\* waiters.entry(key).or_insert_with(VecDeque::new).push_back(tx)
push_waiter(k, w) ==
    IF k \in DOMAIN waiters THEN [waiters EXCEPT ![k] = Append(@, w)]
    ELSE [x \in DOMAIN waiters \cup {k} |-> IF x = k THEN <<w>> ELSE waiters[x]]

\* first poll of a new Checkout for k, up to the release of the lock
CheckoutStart(k) ==
    LET w == Len(checkouts) + 1
        s == checkout_scan(k)
    IN /\ IF ~is_enabled
          THEN /\ checkouts' = Append(checkouts, Finished)
               /\ last' = Op("checkout", k, 0, w, "PoolDisabled")
               /\ UNCHANGED <<idle, waiters, pooled>>
          ELSE /\ idle' = s.idle
               /\ IF s.value = <<>>
                  THEN /\ waiters' = push_waiter(k, w)
                       /\ checkouts' = Append(checkouts, Waiting(k))
                       /\ last' = IF k \in LruKeys(idle)
                                  THEN Op("checkout", k, 0, w, scan_note(LruPeek(idle, k)))
                                  ELSE Quiet
                       /\ UNCHANGED pooled
                  ELSE /\ checkouts' = Append(checkouts, Finished)
                       /\ pooled' = pooled (+) SetToBag({reuse(k, s.value[1])})
                       /\ last' = Quiet
                       /\ UNCHANGED waiters
       /\ UNCHANGED <<max_idle_per_host, connecting, tokens, nconns>>

\* assert!(rx.poll(cx).is_pending()); self.waiter = Some(rx)  (pool.rs:663-664)
CheckoutRegister(w) ==
    /\ w \in 1..Len(checkouts)
    /\ checkouts[w].pc = "registered"
    /\ IF checkouts[w].tx = "queued"
       THEN /\ checkouts' = [checkouts EXCEPT ![w].pc = "parked"]
            /\ last' = Quiet
       ELSE /\ checkouts' = [checkouts EXCEPT ![w] = Finished]
            /\ last' = Op("register", checkouts[w].key, 0, w, "panic")
    /\ UNCHANGED <<max_idle_per_host, connecting, idle, waiters, tokens, nconns, pooled>>

\* variant of poll_waiter_result: a received value is not asked whether it is open
poll_waiter_unchecked(rx) == IF rx = <<>> THEN "CheckoutNoLongerWanted" ELSE "Ok"

\* the match of Checkout::poll_waiter on a ready receiver (pool.rs:600-614);
\* rx = <<>> is Err(Canceled), the sender was dropped unsent
poll_waiter_result(rx) ==
    IF rx = <<>> THEN "CheckoutNoLongerWanted"
    ELSE IF is_open(rx[1]) THEN "Ok"
    ELSE "CheckedOutClosedValue"

\* Checkout::poll_waiter on a parked checkout whose receiver is ready
PollWaiter(w) ==
    /\ w \in 1..Len(checkouts)
    /\ checkouts[w].pc = "parked"
    /\ checkouts[w].tx # "queued"
    /\ LET res == poll_waiter_result(checkouts[w].rx)
       IN /\ checkouts' = [checkouts EXCEPT ![w] = Finished]
          /\ pooled' = IF res = "Ok"
                       THEN pooled (+) SetToBag({reuse(checkouts[w].key, checkouts[w].rx[1])})
                       ELSE pooled
          /\ last' = IF res = "Ok" THEN Quiet ELSE Op("poll_waiter", checkouts[w].key, 0, w, res)
    /\ UNCHANGED <<max_idle_per_host, connecting, idle, waiters, tokens, nconns>>

\* Drop for Checkout, first half: self.waiter.take() drops the receiver
DropCheckout(w) ==
    /\ w \in 1..Len(checkouts)
    /\ checkouts[w].pc = "parked"
    /\ checkouts' = [checkouts EXCEPT ![w].pc = "dropping", ![w].rx = <<>>]
    /\ last' = Quiet
    /\ UNCHANGED <<max_idle_per_host, connecting, idle, waiters, tokens, nconns, pooled>>

\* Drop for Checkout, second half: inner.clean_waiters(&self.key) under the lock
CleanWaiters(w) ==
    /\ w \in 1..Len(checkouts)
    /\ checkouts[w].pc = "dropping"
    /\ waiters' = clean_waiters(checkouts[w].key)
    /\ checkouts' = [checkouts EXCEPT ![w] = Finished]
    /\ last' = IF waiters' # waiters THEN Op("clean_waiters", checkouts[w].key, 0, w, "checkout dropped")
               ELSE Quiet
    /\ UNCHANGED <<max_idle_per_host, connecting, idle, tokens, nconns, pooled>>

\* ------------------------------------------------------------------ Next
\* every operation on the keys of K, by any thread, while fewer than nc
\* connections were made and fewer than nw checkouts were started
Step(K, nc, nw) ==
    \/ \E k \in K, ver \in Vers : Connecting(k, ver) /\ UNCHANGED elsewhere
    \/ \E k \in K : AlpnH2(k) /\ UNCHANGED elsewhere
    \/ \E k \in K, p \in BOOLEAN : DropConnecting(k, p) /\ UNCHANGED elsewhere
    \/ \E k \in K, p \in BOOLEAN, sh \in BOOLEAN : nconns < nc /\ Pooled(k, p, sh) /\ UNCHANGED elsewhere
    \/ \E h \in BagToSet(pooled) : DropPooled(h) /\ UNCHANGED elsewhere
    \/ \E id \in 1..nconns : Close(id) /\ UNCHANGED elsewhere
    \/ \E k \in K : Len(checkouts) < nw /\ CheckoutStart(k) /\ UNCHANGED elsewhere
    \/ \E w \in 1..Len(checkouts) : CheckoutRegister(w) /\ UNCHANGED elsewhere
    \/ \E w \in 1..Len(checkouts) : PollWaiter(w) /\ UNCHANGED elsewhere
    \/ \E w \in 1..Len(checkouts) : DropCheckout(w) /\ UNCHANGED elsewhere
    \/ \E w \in 1..Len(checkouts) : CleanWaiters(w) /\ UNCHANGED elsewhere
    \/ Tick /\ UNCHANGED elsewhere

\* one host
Next == Step({1}, MaxConns, MaxCheckouts)

Spec == Init /\ [][Next]_vars

\* one host, and a pool configured with max_idle_per_host = MaxIdleRoomy
InitRoomy ==
    /\ max_idle_per_host = MaxIdleRoomy
    /\ connecting = {}
    /\ idle = <<>>
    /\ waiters = [k \in {} |-> <<>>]
    /\ tokens = [k \in Keys |-> 0]
    /\ nconns = 0
    /\ pooled = EmptyBag
    /\ checkouts = <<>>
    /\ last = Quiet
    /\ NoHeaders
    /\ NoTimer
    /\ NoBuilder
    /\ NoConnected

NextRoomy == Step({1}, MaxConns, MaxCheckoutsRoomy)

SpecRoomy == InitRoomy /\ [][NextRoomy]_vars

\* a poll of checkout w by its task, and the end of a drop of it
PollWaiterStep(w) == PollWaiter(w) /\ UNCHANGED elsewhere

CleanWaitersStep(w) == CleanWaiters(w) /\ UNCHANGED elsewhere

\* one host; the task of a checkout whose receiver was woken is polled, and a
\* drop of a checkout that has begun runs to its end
SpecDispatch ==
    /\ Init
    /\ [][NextRoomy]_vars
    /\ \A w \in 1..MaxCheckoutsRoomy : WF_vars(PollWaiterStep(w)) /\ WF_vars(CleanWaitersStep(w))

\* a header map and an OriginalHeaders, and one call of sort_headers
InitHeaders ==
    /\ max_idle_per_host = no_keepalive
    /\ connecting = {}
    /\ idle = <<>>
    /\ waiters = [k \in {} |-> <<>>]
    /\ tokens = [k \in Keys |-> 0]
    /\ nconns = 0
    /\ pooled = EmptyBag
    /\ checkouts = <<>>
    /\ last = Quiet
    /\ headers \in HeaderMaps
    /\ orig \in OrigLists
    /\ before = <<>>
    /\ parsed = <<>>
    /\ NoTimer
    /\ NoBuilder
    /\ NoConnected

NextHeaders == SortHeaders

SpecHeaders == InitHeaders /\ [][NextHeaders]_vars

\* ------------------------------------------------------- the idle sweeper
\* the keys_to_remove loop of clear_expired: idle.remove of every key whose
\* list is empty
RemoveEmptyKeys(m) == SelectSeq(m, LAMBDA e : e.list # <<>>)

\* variant of clear_expired: closed entries stay
clear_expired_only(m) ==
    RemoveEmptyKeys([i \in 1..Len(m) |->
                       [key |-> m[i].key,
                        list |-> SelectSeq(m[i].list, LAMBDA e : ~expires(e.age))]])

\* PoolInner::clear_expired: every list keeps its open entries that are not
\* older than the timeout, then the keys whose list is empty are removed
clear_expired(m) ==
    RemoveEmptyKeys([i \in 1..Len(m) |->
                       [key |-> m[i].key,
                        list |-> SelectSeq(m[i].list,
                                           LAMBDA e : is_open(e.value) /\ ~expires(e.age))]])

\* PoolInner::spawn_idle_interval, called by put when it reached the end of
\* its idle half: nothing when idle_interval_ref is Some or there is no timer
spawn_idle_interval(reached) ==
    idle_task' = IF reached /\ timer /\ idle_task = "none" THEN "spawned" ELSE idle_task

\* Pool::pooled on a pool with a timer
PooledSweep(k, p, sh) ==
    /\ inner = "alive"
    /\ Pooled(k, p, sh)
    /\ spawn_idle_interval(is_enabled /\ sh /\ put(k, [id |-> nconns + 1, sh |-> sh, open |-> TRUE]).spawn)
    /\ UNCHANGED <<headers, orig, before, builder, timer, inner, pills, connected, parsed>>

\* Drop for Pooled on a pool with a timer
DropPooledSweep(h) ==
    /\ DropPooled(h)
    /\ spawn_idle_interval(drop_puts(h) /\ put(h.key, h.value).spawn)
    /\ UNCHANGED <<headers, orig, before, builder, timer, inner, pills, connected, parsed>>

\* one poll of the IdleTask, woken by its sleep or by the drop of the
\* one-shot sender: Canceled ends it, else the pool upgrades and is swept
IdleTaskPoll ==
    /\ idle_task = "spawned"
    /\ IF inner = "dropped"
       THEN /\ idle_task' = "done"
            /\ UNCHANGED idle
       ELSE /\ idle' = clear_expired(idle)
            /\ UNCHANGED idle_task
    /\ last' = IF inner = "alive" /\ clear_expired(idle) # idle
               THEN Op("idle_task", 0, 0, 0, "evicting") ELSE Quiet
    /\ UNCHANGED <<max_idle_per_host, connecting, waiters, tokens, nconns, pooled,
                   checkouts, headers, orig, before, builder, timer, inner,
                   pills, connected, parsed>>

\* the last Pool handle is dropped (every Checkout, which holds a clone, is
\* gone): the PoolInner is dropped with its idle values, its senders and
\* idle_interval_ref
DropPool ==
    /\ inner = "alive"
    /\ \A w \in 1..Len(checkouts) : checkouts[w].pc = "done"
    /\ inner' = "dropped"
    /\ idle' = <<>>
    /\ connecting' = {}
    /\ waiters' = [k \in {} |-> <<>>]
    /\ last' = Quiet
    /\ UNCHANGED <<max_idle_per_host, tokens, nconns, pooled, checkouts,
                   headers, orig, before, builder, timer, idle_task,
                   pills, connected, parsed>>

\* one host, an enabled pool with idle_timeout and a timer
InitSweep ==
    /\ max_idle_per_host = MaxIdleRoomy
    /\ connecting = {}
    /\ idle = <<>>
    /\ waiters = [k \in {} |-> <<>>]
    /\ tokens = [k \in Keys |-> 0]
    /\ nconns = 0
    /\ pooled = EmptyBag
    /\ checkouts = <<>>
    /\ last = Quiet
    /\ NoHeaders
    /\ timer = TRUE /\ idle_task = "none" /\ inner = "alive"
    /\ NoBuilder
    /\ NoConnected

NextSweep ==
    \/ \E ver \in Vers : inner = "alive" /\ Connecting(1, ver) /\ UNCHANGED elsewhere
    \/ inner = "alive" /\ AlpnH2(1) /\ UNCHANGED elsewhere
    \/ \E p \in BOOLEAN : DropConnecting(1, p) /\ UNCHANGED elsewhere
    \/ \E p \in BOOLEAN, sh \in BOOLEAN : nconns < MaxConns /\ PooledSweep(1, p, sh)
    \/ \E h \in BagToSet(pooled) : DropPooledSweep(h)
    \/ \E id \in 1..nconns : Close(id) /\ UNCHANGED elsewhere
    \/ inner = "alive" /\ Len(checkouts) < MaxCheckoutsSweep /\ CheckoutStart(1) /\ UNCHANGED elsewhere
    \/ \E w \in 1..Len(checkouts) : CheckoutRegister(w) /\ UNCHANGED elsewhere
    \/ \E w \in 1..Len(checkouts) : PollWaiter(w) /\ UNCHANGED elsewhere
    \/ \E w \in 1..Len(checkouts) : DropCheckout(w) /\ UNCHANGED elsewhere
    \/ \E w \in 1..Len(checkouts) : CleanWaiters(w) /\ UNCHANGED elsewhere
    \/ Tick /\ UNCHANGED elsewhere
    \/ IdleTaskPoll
    \/ DropPool

\* the executor polls a woken IdleTask, and its sleep and the drop of the
\* one-shot sender both wake it
SpecSweep == InitSweep /\ [][NextSweep]_vars /\ WF_vars(IdleTaskPoll)

\* a ClientBuilder::new() of a crate compiled with any features, the calls
\* of its setters that may fail, layer and build, and one request
InitBuilder ==
    /\ max_idle_per_host = MaxIdlePerHost
    /\ connecting = {}
    /\ idle = <<>>
    /\ waiters = [k \in {} |-> <<>>]
    /\ tokens = [k \in Keys |-> 0]
    /\ nconns = 0
    /\ pooled = EmptyBag
    /\ checkouts = <<>>
    /\ last = Quiet
    /\ NoHeaders
    /\ NoTimer
    /\ NoConnected
    /\ features \in SUBSET {"decompression", "cookies"}
    /\ config \in {[NewConfig EXCEPT !.error = e] : e \in BOOLEAN}
    /\ client = <<>>
    /\ flight = NoFlight
    /\ attempt = NoAttempt
    /\ lookup = NoLookup
    /\ request = NoRequest

\* the pool and the header map are not touched by the builder
NextBuilder ==
    \/ \E l \in UserLayers : Layer(l) /\ UNCHANGED <<poolvars, headers, orig, before, timer, idle_task, inner, pills, connected, parsed>>
    \/ Build /\ UNCHANGED <<poolvars, headers, orig, before, timer, idle_task, inner, pills, connected, parsed>>
    \/ Execute /\ UNCHANGED <<poolvars, headers, orig, before, timer, idle_task, inner, pills, connected, parsed>>
    \/ Call /\ UNCHANGED <<poolvars, headers, orig, before, timer, idle_task, inner, pills, connected, parsed>>
    \/ Resolve /\ UNCHANGED <<poolvars, headers, orig, before, timer, idle_task, inner, pills, connected, parsed>>

SpecBuilder == InitBuilder /\ [][NextBuilder]_vars

\* a builder, its retry budget, the built client and one request in its retry layer
NextRetry ==
    \/ \E max \in 0..MaxRetry : Http2MaxRetry(max) /\ UNCHANGED <<poolvars, headers, orig, before, timer, idle_task, inner, pills, connected, parsed>>
    \/ Build /\ UNCHANGED <<poolvars, headers, orig, before, timer, idle_task, inner, pills, connected, parsed>>
    \/ \E body \in Bodies : RetrySend(body) /\ UNCHANGED <<poolvars, headers, orig, before, timer, idle_task, inner, pills, connected, parsed>>
    \/ \E r \in Results : RetryResult(r) /\ UNCHANGED <<poolvars, headers, orig, before, timer, idle_task, inner, pills, connected, parsed>>

SpecRetry == InitBuilder /\ [][NextRetry]_vars

\* a builder, its DNS settings, the built client and one resolution
NextDns ==
    \/ \E d \in Domains, addrs \in AddrLists : ResolveToAddrs(d, addrs) /\ UNCHANGED <<poolvars, headers, orig, before, timer, idle_task, inner, pills, connected, parsed>>
    \/ DnsResolver("custom") /\ UNCHANGED <<poolvars, headers, orig, before, timer, idle_task, inner, pills, connected, parsed>>
    \/ Build /\ UNCHANGED <<poolvars, headers, orig, before, timer, idle_task, inner, pills, connected, parsed>>
    \/ \E name \in Domains, answer \in AddrLists : DynResolverCall(name, answer) /\ UNCHANGED <<poolvars, headers, orig, before, timer, idle_task, inner, pills, connected, parsed>>

SpecDns == InitBuilder /\ [][NextDns]_vars

\* a built client and one request made from any URL, built or sent
NextRequest ==
    \/ Build /\ UNCHANGED <<poolvars, headers, orig, before, timer, idle_task, inner, pills, connected, parsed>>
    \/ \E url \in IntoUrls : ClientRequest(url) /\ UNCHANGED <<poolvars, headers, orig, before, timer, idle_task, inner, pills, connected, parsed>>
    \/ BuildRequest /\ UNCHANGED <<poolvars, headers, orig, before, timer, idle_task, inner, pills, connected, parsed>>
    \/ Send /\ UNCHANGED <<poolvars, headers, orig, before, timer, idle_task, inner, pills, connected, parsed>>

SpecRequest == InitBuilder /\ [][NextRequest]_vars

\* a builder whose setters may fail, the built client, and one request whose
\* setters may fail, built or sent
NextErrors ==
    \/ \E v \in {Text("text"), Text("bad\nvalue")} : UserAgent(v) /\ UNCHANGED <<poolvars, headers, orig, before, timer, idle_task, inner, pills, connected, parsed>>
    \/ \E max \in {0, DefaultMaxRetry} : Http2MaxRetry(max) /\ UNCHANGED <<poolvars, headers, orig, before, timer, idle_task, inner, pills, connected, parsed>>
    \/ Build /\ UNCHANGED <<poolvars, headers, orig, before, timer, idle_task, inner, pills, connected, parsed>>
    \/ \E url \in {u \in IntoUrls : u = <<>> \/ (u[1].username \in {<<>>, <<"a">>} /\ u[1].password = <<>>)} :
           ClientRequest(url) /\ UNCHANGED <<poolvars, headers, orig, before, timer, idle_task, inner, pills, connected, parsed>>
    \/ \E k \in {"authorization", "content-type", "bad name"}, v \in {Text("text"), Text("bad\nvalue")}, overwrite \in BOOLEAN :
           Setter(header_operation(request.request, k, v, FALSE, overwrite, FALSE))
           /\ UNCHANGED <<poolvars, headers, orig, before, timer, idle_task, inner, pills, connected, parsed>>
    \/ Setter(rb_basic_auth(request.request, <<98>>, <<>>)) /\ UNCHANGED <<poolvars, headers, orig, before, timer, idle_task, inner, pills, connected, parsed>>
    \/ \E q \in Serialized : Setter(query(request.request, q)) /\ UNCHANGED <<poolvars, headers, orig, before, timer, idle_task, inner, pills, connected, parsed>>
    \/ \E f \in Serialized, t \in {"application/x-www-form-urlencoded", "application/json"} :
           Setter(form(request.request, f, t)) /\ UNCHANGED <<poolvars, headers, orig, before, timer, idle_task, inner, pills, connected, parsed>>
    \/ Setter(rb_body(request.request, <<"bytes">>)) /\ UNCHANGED <<poolvars, headers, orig, before, timer, idle_task, inner, pills, connected, parsed>>
    \/ BuildRequest /\ UNCHANGED <<poolvars, headers, orig, before, timer, idle_task, inner, pills, connected, parsed>>
    \/ Send /\ UNCHANGED <<poolvars, headers, orig, before, timer, idle_task, inner, pills, connected, parsed>>

SpecErrors == InitBuilder /\ [][NextErrors]_vars

\* a builder, its headers, its HTTP version and its emulations, and build
NextEmulation ==
    \/ UserAgent(Text("text")) /\ UNCHANGED <<poolvars, headers, orig, before, timer, idle_task, inner, pills, connected, parsed>>
    \/ \E pref \in {"Http1", "Http2"} : HttpOnly(pref) /\ UNCHANGED <<poolvars, headers, orig, before, timer, idle_task, inner, pills, connected, parsed>>
    \/ \E e \in Emulations : Emulation(e) /\ UNCHANGED <<poolvars, headers, orig, before, timer, idle_task, inner, pills, connected, parsed>>
    \/ Build /\ UNCHANGED <<poolvars, headers, orig, before, timer, idle_task, inner, pills, connected, parsed>>

SpecEmulation == InitBuilder /\ [][NextEmulation]_vars

\* one checkout of a key whose idle list is any list that puts, closes and
\* the passing of time can leave: up to MaxList entries, the oldest first, at
\* most one of them sharable, each open or closed
InitPop ==
    /\ max_idle_per_host = MaxList
    /\ connecting = {}
    /\ idle \in LET shapes == UNION {[1..n -> [sh : BOOLEAN, open : BOOLEAN, age : 0..(IdleTimeout + 1)]] :
                                       n \in 1..MaxList}
                     lists == {s \in shapes :
                                 /\ \A i, j \in 1..Len(s) : i < j => s[i].age >= s[j].age
                                 /\ \A i, j \in 1..Len(s) : (s[i].sh /\ s[j].sh) => i = j}
                 IN {<<[key |-> 1,
                        list |-> [i \in 1..Len(s) |->
                                    [value |-> [id |-> i, sh |-> s[i].sh, open |-> s[i].open],
                                     age |-> s[i].age]]]>> : s \in lists}
    /\ waiters = [k \in {} |-> <<>>]
    /\ tokens = [k \in Keys |-> 0]
    /\ nconns = MaxList
    /\ pooled = EmptyBag
    /\ checkouts = <<>>
    /\ last = Quiet
    /\ NoHeaders
    /\ NoTimer
    /\ NoBuilder
    /\ NoConnected

NextPop == checkouts = <<>> /\ CheckoutStart(1) /\ UNCHANGED elsewhere

SpecPop == InitPop /\ [][NextPop]_vars

\* the Connected values of up to MaxConnected connections and copies
SpecConnected == Init /\ [][NextConnected]_vars

\* -------------------------------------------------------- Content-Length
\* A header value is the sequence of its bytes.  A u64 is <<a, b, c>>, the
\* number a * 10^14 + b * 10^7 + c with b, c < 10^7, at most u64::MAX =
\* 18446744073709551615; an Option is <<>> (None) or <<v>> (Some(v)).
RADIX == 10

\* the loop of from_digits over the bytes left, with `result` so far: <<>> when
\* a byte is not a digit or checked_mul or checked_add returns None
RECURSIVE from_digits_loop(_, _)
from_digits_loop(bytes, result) ==
    LET checked(a, b, c) ==
            LET b0 == b + c \div 10000000
                a0 == a + b0 \div 10000000
                v == <<a0, b0 % 10000000, c % 10000000>>
            IN IF \/ v[1] < 184467
                  \/ v[1] = 184467 /\ v[2] < 4407370
                  \/ v[1] = 184467 /\ v[2] = 4407370 /\ v[3] <= 9551615
               THEN <<v>> ELSE <<>>
        checked_mul(x, m) == checked(x[1] * m, x[2] * m, x[3] * m)
        checked_add(x, d) == checked(x[1], x[2], x[3] + d)
    IN IF bytes = <<>> THEN <<result>>
       ELSE IF Head(bytes) \in 48..57
       THEN LET m == checked_mul(result, RADIX)
            IN IF m = <<>> THEN <<>>
               ELSE LET s == checked_add(m[1], Head(bytes) - 48)
                    IN IF s = <<>> THEN <<>> ELSE from_digits_loop(Tail(bytes), s[1])
       ELSE <<>>

\* variant of from_digits: a plus sign may come first, as in u64::from_str
from_digits_signed(bytes) ==
    IF bytes = <<>> THEN <<>>
    ELSE IF Head(bytes) = 43 /\ Tail(bytes) # <<>> THEN from_digits_loop(Tail(bytes), <<0, 0, 0>>)
    ELSE from_digits_loop(bytes, <<0, 0, 0>>)

\* from_digits
from_digits(bytes) ==
    IF bytes = <<>> THEN <<>> ELSE from_digits_loop(bytes, <<0, 0, 0>>)

\* content_length_parse_all_values: HeaderValue::to_str is Ok when every byte
\* is a tab or visible ASCII; str::split(',') gives the pieces between the
\* commas, one piece for an empty line; str::trim takes the white space off
\* both ends, which in such a line is the space and the tab
content_length_parse_all_values(values) ==
    LET to_str_ok(h) == \A i \in 1..Len(h) : h[i] = 9 \/ h[i] \in 32..126
        RECURSIVE split(_, _)
        split(line, piece) ==
            IF line = <<>> THEN <<piece>>
            ELSE IF Head(line) = 44 THEN <<piece>> \o split(Tail(line), <<>>)
            ELSE split(Tail(line), Append(piece, Head(line)))
        RECURSIVE trim_start(_)
        trim_start(v) == IF v # <<>> /\ Head(v) \in {9, 32} THEN trim_start(Tail(v)) ELSE v
        RECURSIVE trim_end(_)
        trim_end(v) == IF v # <<>> /\ v[Len(v)] \in {9, 32}
                       THEN trim_end(SubSeq(v, 1, Len(v) - 1)) ELSE v
        RECURSIVE pieces(_, _)
        pieces(vs, content_length) ==
            IF vs = <<>> THEN [ret |-> FALSE, content_length |-> content_length]
            ELSE LET n == from_digits(trim_end(trim_start(Head(vs))))
                 IN IF n = <<>> THEN [ret |-> TRUE, content_length |-> <<>>]
                    ELSE IF content_length = <<>> THEN pieces(Tail(vs), n)
                    ELSE IF content_length # n THEN [ret |-> TRUE, content_length |-> <<>>]
                    ELSE pieces(Tail(vs), content_length)
        RECURSIVE lines(_, _)
        lines(hs, content_length) ==
            IF hs = <<>> THEN content_length
            ELSE IF ~to_str_ok(Head(hs)) THEN <<>>
            ELSE LET r == pieces(split(Head(hs), <<>>), content_length)
                 IN IF r.ret THEN <<>> ELSE lines(Tail(hs), r.content_length)
    IN lines(values, <<>>)

\* content_length_parse_all(&headers), called once
content_length_parse_all ==
    /\ parsed = <<>>
    /\ parsed' = <<content_length_parse_all_values(HGetAll(headers, 1))>>
    /\ UNCHANGED <<poolvars, headers, orig, before, timer, idle_task, inner, builder,
                   pills, connected>>

\* a header map with no Content-Length, or with up to MaxLines values of it,
\* each of up to MaxElems pieces joined by commas: numbers with and without
\* leading zeros and white space, u64::MAX and the two numbers after it that
\* overflow in checked_add and in checked_mul, signs, empty and blank pieces,
\* a letter, and a byte that is not ASCII
InitLength ==
    LET max == <<49, 56, 52, 52, 54, 55, 52, 52, 48, 55, 51, 55, 48, 57, 53, 53, 49, 54>>
        elems == {<<48>>, <<53>>, <<32, 48, 53, 9>>, <<43, 53>>, <<45, 53>>, <<>>, <<32>>,
                  <<53, 32, 53>>, <<53, 97>>, <<53, 200>>,
                  max \o <<49, 53>>, <<32, 48, 48>> \o max \o <<49, 53>>,
                  max \o <<49, 54>>, max \o <<50, 48>>, max \o <<49, 53, 48>>}
        RECURSIVE join(_)
        join(es) == IF Len(es) = 1 THEN es[1] ELSE es[1] \o <<44>> \o join(Tail(es))
        values == {join(es) : es \in UNION {[1..n -> elems] : n \in 1..MaxElems}}
    IN /\ max_idle_per_host = no_keepalive
       /\ connecting = {}
       /\ idle = <<>>
       /\ waiters = [k \in {} |-> <<>>]
       /\ tokens = [k \in Keys |-> 0]
       /\ nconns = 0
       /\ pooled = EmptyBag
       /\ checkouts = <<>>
       /\ last = Quiet
       /\ headers \in {<<>>} \cup {<<[name |-> 1, values |-> vs]>> :
                                      vs \in UNION {[1..n -> values] : n \in 1..MaxLines}}
       /\ orig = <<>>
       /\ before = <<>>
       /\ parsed = <<>>
       /\ NoTimer
       /\ NoBuilder
       /\ NoConnected

SpecLength == InitLength /\ [][content_length_parse_all]_vars

\* NKeys hosts whose connections are all HTTP/1: every token is one of Auto
\* and every value is Unique
NextHosts ==
    \/ \E k \in Keys : Connecting(k, "Auto") /\ UNCHANGED elsewhere
    \/ \E k \in Keys : DropConnecting(k, FALSE) /\ UNCHANGED elsewhere
    \/ \E k \in Keys : nconns < MaxConnsHosts /\ Pooled(k, FALSE, FALSE) /\ UNCHANGED elsewhere
    \/ \E h \in BagToSet(pooled) : DropPooled(h) /\ UNCHANGED elsewhere
    \/ \E id \in 1..nconns : Close(id) /\ UNCHANGED elsewhere
    \/ \E k \in Keys : Len(checkouts) < MaxCheckoutsHosts /\ CheckoutStart(k) /\ UNCHANGED elsewhere
    \/ \E w \in 1..Len(checkouts) : CheckoutRegister(w) /\ UNCHANGED elsewhere
    \/ \E w \in 1..Len(checkouts) : PollWaiter(w) /\ UNCHANGED elsewhere
    \/ \E w \in 1..Len(checkouts) : DropCheckout(w) /\ UNCHANGED elsewhere
    \/ \E w \in 1..Len(checkouts) : CleanWaiters(w) /\ UNCHANGED elsewhere
    \/ Tick /\ UNCHANGED elsewhere

SpecHosts == Init /\ [][NextHosts]_vars

\* the same hosts, and a pool configured with max_idle_per_host = MaxIdleRoomy
SpecHostsRoomy == InitRoomy /\ [][NextHosts]_vars

\* ----------------------------------------------------------------- claims
\* the list of idle[k] ( <<>> when the key is absent )
IdleList(m, k) == LruPeek(m, k)

\* the queue of waiters[k] ( <<>> when the key is absent )
Queue(ws, k) == IF k \in DOMAIN ws THEN ws[k] ELSE <<>>

\* checkout w waits for a value: its sender is queued and its receiver is alive
Pending(w) == checkouts[w].pc \in {"registered", "parked"} /\ checkouts[w].tx = "queued"

Parked(w) == checkouts[w].pc = "parked" /\ checkouts[w].tx = "queued"

\* C1: in an enabled pool at most one Connecting token of Http2 is alive for a
\* key, and while one is alive connecting(k, Http2) returns None.
C1_SingleH2Token ==
    is_enabled =>
        \A k \in Keys :
            /\ tokens[k] <= 1
            /\ tokens[k] = 1 => connecting_result(k, "Http2").token = <<>>

C1_Witness ==
    /\ is_enabled
    /\ tokens[1] = 1
    /\ connecting_result(1, "Http2").token = <<>>
    /\ connecting_result(1, "Auto").token # <<>>

\* C2: a Unique value that a put hands to a waiter goes to the checkout that
\* queued first among those of its key that still wait; the checkouts are
\* numbered in the order in which they queued their senders.
C2_WaiterFifo ==
    [][\A w \in 1..Len(checkouts) :
          (/\ checkouts[w].rx = <<>>
           /\ checkouts'[w].rx # <<>>
           /\ ~can_share(checkouts'[w].rx[1]))
          => /\ Pending(w)
             /\ \A u \in 1..(w - 1) : ~(Pending(u) /\ checkouts[u].key = checkouts[w].key)]_vars

\* the first checkout was cancelled and then skipped by a put, and the two
\* behind it each got a Unique value
C2_Witness ==
    /\ Len(checkouts) = 3
    /\ checkouts[1].pc = "dropping"
    /\ 1 \notin DOMAIN waiters
    /\ checkouts[2].rx # <<>> /\ ~can_share(checkouts[2].rx[1])
    /\ checkouts[3].rx # <<>> /\ ~can_share(checkouts[3].rx[1])
    /\ checkouts[2].rx[1].id # checkouts[3].rx[1].id

\* the Pooled handle h of an open Unique value is dropped, its pool reference alive
UniqueReturn(h) ==
    /\ DropPooled(h)
    /\ is_open(h.value)
    /\ ~can_share(h.value)
    /\ h.pool

\* C3: an idle list never holds more than max_idle_per_host entries; an open
\* Unique value returned while no checkout waits for its key is appended when
\* the list is below the cap and discarded, the list unchanged, when it is at it.
C3_IdleCap ==
    /\ [](\A i \in 1..Len(idle) : Len(idle[i].list) <= max_idle_per_host)
    /\ [][\A h \in BagToSet(pooled) :
            (UniqueReturn(h) /\ h.key \notin DOMAIN waiters)
            => IdleList(idle', h.key) =
                 IF Len(IdleList(idle, h.key)) >= max_idle_per_host
                 THEN IdleList(idle, h.key)
                 ELSE Append(IdleList(idle, h.key), [value |-> h.value, age |-> 0])]_vars

\* more values were returned than the cap admits, and the last one was dropped
C3_Witness ==
    /\ last.op = "drop_pooled"
    /\ last.ret = "max idle per host"
    /\ nconns > max_idle_per_host
    /\ Len(IdleList(idle, last.key)) = max_idle_per_host

\* C4: the idle map never holds more than MaxPoolSize keys, and the insertion
\* of a new key into a full map pops the least recently used key with its whole
\* list and leaves the lists of the other keys alone.
C4_PoolSize ==
    /\ [](Len(idle) <= MaxPoolSize /\ Cardinality(LruKeys(idle)) = Len(idle))
    /\ [][\A k \in Keys :
            (k \notin LruKeys(idle) /\ k \in LruKeys(idle') /\ Len(idle) = MaxPoolSize)
            => /\ LruKeys(idle') = (LruKeys(idle) \ {idle[Len(idle)].key}) \cup {k}
               /\ \A x \in LruKeys(idle') \ {k} : IdleList(idle', x) = IdleList(idle, x)]_vars

\* values of MaxPoolSize + 1 hosts were returned one after the other: the host
\* of the first is gone, the hosts of the others are idle
C4_Witness ==
    /\ last.ret = "least recently used key popped"
    /\ nconns = MaxPoolSize + 1
    /\ pooled = EmptyBag
    /\ checkouts = <<>>
    /\ Len(idle) = MaxPoolSize
    /\ \A i \in 1..Len(idle) : idle[i].list # <<>> /\ idle[i].list[1].value.id = nconns + 1 - i

\* the entries of a list that a checkout may return
Usable(list) == {j \in 1..Len(list) : list[j].value.open /\ list[j].age <= IdleTimeout}

Newest(S) == CHOOSE j \in S : \A i \in S : i <= j

\* C5: a checkout of an enabled pool returns the newest entry of idle[k] that
\* is open and not older than the timeout and discards the entries above it;
\* when no entry is open and young enough, the key leaves the idle map and the
\* checkout queues a sender and returns no value.
C5_NoExpiredCheckout ==
    [][\A k \in Keys :
          (is_enabled /\ CheckoutStart(k))
          => LET list == IdleList(idle, k)
                 w == Len(checkouts) + 1
             IN IF Usable(list) = {}
                THEN /\ k \notin LruKeys(idle')
                     /\ checkouts'[w] = Waiting(k)
                     /\ Queue(waiters', k) = Append(Queue(waiters, k), w)
                     /\ pooled' = pooled
                ELSE LET j == Newest(Usable(list))
                         v == list[j].value
                     IN /\ pooled' = pooled (+) SetToBag({Handle(v, k, TRUE, ~v.sh)})
                        /\ IdleList(idle', k) = SubSeq(list, 1, j - 1)
                              \o (IF v.sh THEN <<[value |-> v, age |-> 0]>> ELSE <<>>)
                        /\ waiters' = waiters]_vars

\* a checkout met an open entry older than the timeout, and now waits
C5_Witness ==
    /\ last.op = "checkout"
    /\ last.ret = "removing expired connection"
    /\ last.key \notin LruKeys(idle)
    /\ checkouts[last.w] = Waiting(last.key)
    /\ waiters[last.key][Len(waiters[last.key])] = last.w

\* the queue q without the senders of the checkouts of S
Without(q, S) == SelectSeq(q, LAMBDA u : u \notin S)

\* the checkouts whose receiver is dropped
Cancelled == {u \in 1..Len(checkouts) : checkouts[u].pc \in {"dropping", "done"}}

\* the drop of checkout w, up to the end of clean_waiters, leaves the queue as `left`
DropLeaves(w, left) ==
    LET k == checkouts[w].key
    IN /\ Queue(waiters', k) = left
       /\ left = <<>> => k \notin DOMAIN waiters'
       /\ \A x \in DOMAIN waiters \ {k} : x \in DOMAIN waiters' /\ waiters'[x] = waiters[x]
       /\ DOMAIN waiters' \subseteq DOMAIN waiters

\* C6 as stated: the drop of a parked checkout removes its own sender and no other.
C6_Original ==
    [][\A w \in 1..Len(checkouts) :
          CleanWaiters(w) => DropLeaves(w, Without(Queue(waiters, checkouts[w].key), {w}))]_vars

\* C6: the drop of a parked checkout removes from waiters[k] its own sender and
\* the senders of the other checkouts whose receiver is dropped; the senders of
\* the checkouts that still wait stay in their order, and the key leaves the
\* map when none stays.
C6_DropCheckout ==
    [][\A w \in 1..Len(checkouts) :
          CleanWaiters(w) => DropLeaves(w, Without(Queue(waiters, checkouts[w].key), Cancelled))]_vars

\* the second of three waiters was dropped, the others stay in order
C6_Witness ==
    /\ last.op = "clean_waiters"
    /\ last.w = 2
    /\ Queue(waiters, last.key) = <<1, 3>>

\* no checkout waits for a value of k
NoWaiter(k) == \A i \in 1..Len(Queue(waiters, k)) : ~Pending(Queue(waiters, k)[i])

\* the newest entry of idle[k] is the value v, just inserted
NewestIdle(m, k, v) ==
    /\ IdleList(m, k) # <<>>
    /\ IdleList(m, k)[Len(IdleList(m, k))] = [value |-> v, age |-> 0]

\* the handle of pool.pooled() says is_reused() = false
NewHandleIsNew ==
    \A h \in BagToSet(pooled') :
        (nconns' = nconns + 1 /\ CopiesIn(h, pooled') > CopiesIn(h, pooled)) => ~h.is_reused

\* a checkout of k whose newest idle entry is an open Unique value not older
\* than the timeout resolves on its first poll to that value, is_reused() = true
CheckoutTakesNewest ==
    \A k \in Keys :
        LET list == IdleList(idle, k)
        IN (/\ CheckoutStart(k)
            /\ is_enabled
            /\ list # <<>>
            /\ list[Len(list)].value.open
            /\ ~list[Len(list)].value.sh
            /\ list[Len(list)].age <= IdleTimeout)
           => /\ pooled' = pooled (+) SetToBag({Handle(list[Len(list)].value, k, TRUE, TRUE)})
              /\ checkouts' = Append(checkouts, Finished)
              /\ last' = Quiet

\* C7 as stated: the drop of the handle that pool.pooled() gave for an open
\* Unique value, while no checkout waits for k, always places the value in idle[k].
C7_Original ==
    [][/\ \A h \in BagToSet(pooled) :
            (UniqueReturn(h) /\ ~h.is_reused /\ NoWaiter(h.key))
            => NewestIdle(idle', h.key, h.value)
       /\ NewHandleIsNew
       /\ CheckoutTakesNewest]_vars

\* C7: the drop of the handle that pool.pooled() gave for an open Unique value,
\* while no checkout waits for k and idle[k] holds fewer than max_idle_per_host
\* entries, places the value in idle[k] as its newest entry, and with idle[k]
\* full the value is discarded; a checkout of k that follows before the timeout
\* resolves on its first poll to the newest entry with is_reused() = true; the
\* handle of pool.pooled() has is_reused() = false.
C7_ReturnThenReuse ==
    [][/\ \A h \in BagToSet(pooled) :
            (UniqueReturn(h) /\ ~h.is_reused /\ NoWaiter(h.key))
            => IF Len(IdleList(idle, h.key)) < max_idle_per_host
               THEN NewestIdle(idle', h.key, h.value)
               ELSE IdleList(idle', h.key) = IdleList(idle, h.key)
       /\ NewHandleIsNew
       /\ CheckoutTakesNewest]_vars

\* a value made by pool.pooled() went through the idle list and is held again,
\* by a handle of a checkout
C7_Witness ==
    /\ nconns = 1
    /\ idle = <<>>
    /\ checkouts = <<Finished>>
    /\ pooled = SetToBag({Handle([id |-> 1, sh |-> FALSE, open |-> TRUE], 1, TRUE, TRUE)})

\* C8: the drop of a handle whose value is not open changes neither the idle
\* map nor the waiters map, and no checkout receives the value.
C8_ClosedNotReturned ==
    [][\A h \in BagToSet(pooled) :
          (DropPooled(h) /\ ~is_open(h.value)) => UNCHANGED <<idle, waiters, checkouts>>]_vars

\* a closed value was dropped with its pool reference alive while a checkout
\* of its key waited, and the checkout still waits
C8_Witness ==
    /\ last.op = "drop_pooled"
    /\ last.ret = "closed"
    /\ idle = <<>>
    /\ last.key \in DOMAIN waiters
    /\ Parked(waiters[last.key][1])
    /\ checkouts[waiters[last.key][1]].rx = <<>>

\* the checkout whose sender is the first of waiters[k] that still waits, or 0
FirstPending(k) ==
    LET q == Queue(waiters, k)
        P == {i \in 1..Len(q) : Pending(q[i])}
    IN IF P = {} THEN 0 ELSE q[CHOOSE i \in P : \A j \in P : i <= j]

\* C9: an open Unique value returned while the first waiting checkout of its
\* key is parked is sent to that checkout, whose sender leaves the queue, and
\* the idle map is unchanged; the poll of a parked checkout that holds an open
\* value resolves Ok with a handle of that value, is_reused() = true.
C9_WaiterServed ==
    [][/\ \A h \in BagToSet(pooled) :
            (UniqueReturn(h) /\ FirstPending(h.key) # 0 /\ Parked(FirstPending(h.key)))
            => LET w == FirstPending(h.key)
               IN /\ checkouts'[w].rx = <<h.value>>
                  /\ checkouts'[w].pc = "parked"
                  /\ \A i \in 1..Len(Queue(waiters', h.key)) : Queue(waiters', h.key)[i] # w
                  /\ idle' = idle
       /\ \A w \in 1..Len(checkouts) :
            (PollWaiter(w) /\ checkouts[w].rx # <<>> /\ is_open(checkouts[w].rx[1]))
            => /\ pooled' = pooled (+) SetToBag({Handle(checkouts[w].rx[1], checkouts[w].key,
                                                        TRUE, ~can_share(checkouts[w].rx[1]))})
               /\ checkouts'[w] = Finished
               /\ last' = Quiet]_vars

\* a parked checkout holds the open Unique value it was sent, and idle is empty
C9_Witness ==
    \E w \in 1..Len(checkouts) :
        /\ checkouts[w].pc = "parked"
        /\ checkouts[w].rx # <<>>
        /\ is_open(checkouts[w].rx[1])
        /\ ~can_share(checkouts[w].rx[1])
        /\ idle = <<>>
        /\ pooled = EmptyBag

\* C10: the drop of a token of Http2 that was not given to pool.pooled()
\* removes its key from the connecting set and from the waiters map; the
\* sender of every checkout queued for the key is dropped unsent, the poll of
\* such a checkout resolves Err(CheckoutNoLongerWanted), and connecting(k,
\* Http2) returns a token again.
C10_TokenDropped ==
    [][/\ \A k \in Keys :
            DropConnecting(k, TRUE)
            => /\ k \notin connecting'
               /\ k \notin DOMAIN waiters'
               /\ \A i \in 1..Len(Queue(waiters, k)) :
                     Pending(Queue(waiters, k)[i])
                     => /\ checkouts'[Queue(waiters, k)[i]].tx = "dropped"
                        /\ checkouts'[Queue(waiters, k)[i]].rx = <<>>
               /\ tokens'[k] = 0
       /\ \A k \in Keys : (is_enabled /\ k \notin connecting) => connecting_result(k, "Http2").token = <<TRUE>>
       /\ \A w \in 1..Len(checkouts) :
            (PollWaiter(w) /\ checkouts[w].tx = "dropped")
            => /\ checkouts'[w] = Finished
               /\ pooled' = pooled
               /\ last' = Op("poll_waiter", checkouts[w].key, 0, w, "CheckoutNoLongerWanted")]_vars

\* no connection was ever made, the token of Http2 is gone, and a checkout that
\* waited resolved to the error
C10_Witness ==
    /\ nconns = 0
    /\ last.op = "poll_waiter"
    /\ last.ret = "CheckoutNoLongerWanted"
    /\ tokens[last.key] = 0
    /\ last.key \notin connecting
    /\ last.key \notin DOMAIN waiters

\* pool.pooled(token of Http2, Shared value) on key k in an enabled pool
SharedPooled(k) == is_enabled /\ Pooled(k, TRUE, TRUE)

\* what every pool.pooled() of a Shared value c does: the token is consumed,
\* the caller holds a copy, and every checkout that waits for k is sent a copy
SharedPooledServes(k) ==
    LET c == [id |-> nconns + 1, sh |-> TRUE, open |-> TRUE]
    IN /\ k \notin connecting'
       /\ k \notin DOMAIN waiters'
       /\ pooled' = pooled (+) SetToBag({Handle(c, k, FALSE, FALSE)})
       /\ \A i \in 1..Len(Queue(waiters, k)) :
             Pending(Queue(waiters, k)[i])
             => /\ checkouts'[Queue(waiters, k)[i]].rx = <<c>>
                /\ checkouts'[Queue(waiters, k)[i]].tx = "sent"

FailsWith(w, err) ==
    /\ last' = Op("poll_waiter", checkouts[w].key, 0, w, err)
    /\ checkouts'[w] = Finished
    /\ Len(checkouts') = Len(checkouts)
    /\ UNCHANGED <<idle, waiters, pooled, connecting>>

\* C12: the poll of a parked checkout whose receiver is ready gives Ok with a
\* handle of the value, is_reused() = true, when the value received is open;
\* Err(CheckedOutClosedValue) when it is closed, the value stored nowhere; and
\* Err(CheckoutNoLongerWanted) when the sender was dropped unsent.  On an error
\* the idle map is not scanned and no sender is queued.
C12_PollWaiterOutcome ==
    [][\A w \in 1..Len(checkouts) :
          PollWaiter(w)
          => LET rx == checkouts[w].rx
             IN IF rx = <<>> THEN FailsWith(w, "CheckoutNoLongerWanted")
                ELSE IF ~rx[1].open THEN FailsWith(w, "CheckedOutClosedValue")
                ELSE /\ pooled' = pooled (+) SetToBag({Handle(rx[1], checkouts[w].key, TRUE, ~rx[1].sh)})
                     /\ checkouts'[w] = Finished
                     /\ last' = Quiet
                     /\ UNCHANGED <<idle, waiters>>]_vars

\* a checkout was sent a value that closed before the poll, and the poll
\* failed while the idle list of the key held a usable entry
C12_Witness ==
    /\ last.op = "poll_waiter"
    /\ last.ret = "CheckedOutClosedValue"
    /\ checkouts[last.w] = Finished
    /\ last.key \notin DOMAIN waiters
    /\ Usable(IdleList(idle, last.key)) # {}

\* the pool was built with max_idle_per_host = 0
Disabled == max_idle_per_host = no_keepalive

\* C13: the pool is enabled iff max_idle_per_host > 0.  A pool built with
\* max_idle_per_host = 0 keeps nothing: connecting(k, Http2) returns a token
\* without a pool reference and records no key, no handle holds a pool
\* reference, every checkout resolves on its first poll to Err(PoolDisabled)
\* and queues no sender, and the drop of a handle stores its value nowhere.
C13_DisabledPool ==
    /\ [](is_enabled <=> max_idle_per_host > 0)
    /\ [](Disabled
          => /\ ~is_enabled
             /\ idle = <<>> /\ DOMAIN waiters = {} /\ connecting = {}
             /\ \A k \in Keys : connecting_result(k, "Http2").token = <<FALSE>>
             /\ \A k \in Keys : connecting_result(k, "Http2").connecting = connecting
             /\ \A h \in BagToSet(pooled) : ~h.pool)
    /\ [][Disabled
          => /\ \A k \in Keys :
                  CheckoutStart(k)
                  => /\ last' = Op("checkout", k, 0, Len(checkouts) + 1, "PoolDisabled")
                     /\ checkouts' = Append(checkouts, Finished)
                     /\ UNCHANGED <<idle, waiters, pooled>>
             /\ \A h \in BagToSet(pooled) :
                  DropPooled(h) => UNCHANGED <<idle, waiters, checkouts>>]_vars

\* in a disabled pool two connections were made and their handles dropped,
\* and then a checkout failed
C13_Witness ==
    /\ Disabled
    /\ nconns = 2
    /\ pooled = EmptyBag
    /\ last.op = "checkout"
    /\ last.ret = "PoolDisabled"
    /\ checkouts[last.w] = Finished

\* C14: connecting(k, Auto) returns a token in every state, also while a token
\* of Http2 is alive for k, and records no key; the token holds no pool
\* reference; making it and dropping it leave the connecting set, the idle
\* map, the waiters map, the tokens of Http2, the checkouts and the handles
\* unchanged, so a later connecting(k, Http2) answers as it would have before.
C14_AutoToken ==
    /\ [](\A k \in Keys : /\ connecting_result(k, "Auto").token = <<FALSE>>
                          /\ connecting_result(k, "Auto").connecting = connecting)
    /\ [][\A k \in Keys :
            (Connecting(k, "Auto") \/ DropConnecting(k, FALSE))
            => UNCHANGED <<connecting, idle, waiters, tokens, checkouts, pooled>>]_vars

\* a dial of Http2 is in flight for key 1 with a checkout waiting, and a Unique
\* connection of key 1, made with a token of Auto, is in use
C14_Witness ==
    /\ is_enabled
    /\ 1 \in connecting
    /\ tokens[1] = 1
    /\ nconns = 1
    /\ pooled = SetToBag({Handle([id |-> 1, sh |-> FALSE, open |-> TRUE], 1, FALSE, TRUE)})
    /\ 1 \in DOMAIN waiters
    /\ connecting_result(1, "Auto").token = <<FALSE>>
    /\ connecting_result(1, "Http2").token = <<>>

\* the sharable entries of a list
Sharable(list) == {j \in 1..Len(list) : list[j].value.sh}

\* a checkout of k in an enabled pool picks a sharable entry of idle[k]
PicksSharable(k) ==
    /\ is_enabled
    /\ CheckoutStart(k)
    /\ Usable(IdleList(idle, k)) # {}
    /\ IdleList(idle, k)[Newest(Usable(IdleList(idle, k)))].value.sh

\* at most one entry of an idle list is sharable, and pool.pooled() of a Shared
\* value for a key whose list holds a sharable entry leaves the idle map alone
OneSharable ==
    /\ [](\A i \in 1..Len(idle) : Cardinality(Sharable(idle[i].list)) <= 1)
    /\ [][\A k \in Keys :
            (SharedPooled(k) /\ Sharable(IdleList(idle, k)) # {}) => idle' = idle]_vars

\* the caller of a checkout that picked a sharable entry holds a copy, and the
\* pool's copy is the newest entry of idle[k], idle_at refreshed
SharableStays(k) ==
    LET list == IdleList(idle, k)
        v == list[Newest(Usable(list))].value
    IN /\ pooled' = pooled (+) SetToBag({Handle(v, k, TRUE, FALSE)})
       /\ NewestIdle(idle', k, v)
       /\ Sharable(IdleList(idle', k)) = {Len(IdleList(idle', k))}

RECURSIVE ListedPresent(_, _, _)
ListedPresent(o, m, seen) ==
    IF o = <<>> THEN <<>>
    ELSE IF HHas(m, Head(o)) /\ Head(o) \notin seen
         THEN <<Head(o)>> \o ListedPresent(Tail(o), m, seen \cup {Head(o)})
         ELSE ListedPresent(Tail(o), m, seen)

\* the names of the map m that the list o does not name, in the order of m
Unlisted(m, o) == SelectSeq(HNamesOf(m), LAMBDA n : \A i \in 1..Len(o) : o[i] # n)

\* C16: after sort_headers(headers, orig) the map iterates first over the
\* names of orig that it holds, in the order of orig, and then over the names
\* that orig does not list, in the order they had before the call; no name is
\* added.
C16_SortedOrder ==
    before # <<>>
    => HNamesOf(headers) = ListedPresent(orig, before[1], {}) \o Unlisted(before[1], orig)

\* an idle entry that a sweep removes: closed, or older than the idle timeout
Stale(e) == ~e.value.open \/ e.age > IdleTimeout

\* some idle list holds a stale entry
SomeStale == \E i \in 1..Len(idle) : \E j \in 1..Len(idle[i].list) : Stale(idle[i].list[j])

\* what a sweep leaves of a list: its entries that are not stale, in order
Fresh(list) == SelectSeq(list, LAMBDA e : ~Stale(e))

\* a step that is one wake of the sweeper while the pool is alive
Sweeps == IdleTaskPoll /\ inner = "alive"

\* C17: in a pool with an idle timeout and a timer the sweeper is started by
\* the first insertion into idle and runs while idle has entries; each of its
\* wakes leaves of every idle list exactly the open entries that are not older
\* than the timeout and removes the keys whose list became empty; and a stale
\* idle entry eventually disappears whether or not a checkout comes.
C17_Sweeper ==
    /\ [](inner = "alive" /\ idle # <<>> => idle_task = "spawned")
    /\ [][idle_task = "none" /\ idle_task' # "none" => idle = <<>> /\ idle' # <<>>]_vars
    /\ [][Sweeps => /\ \A k \in Keys : IdleList(idle', k) = Fresh(IdleList(idle, k))
                    /\ \A i \in 1..Len(idle') : idle'[i].list # <<>>]_vars
    /\ (SomeStale ~> ~SomeStale)

\* a sweep has just evicted from an idle list of two and kept the fresh entry,
\* and no checkout was ever started
C17_Witness ==
    /\ last.op = "idle_task"
    /\ checkouts = <<>>
    /\ \E i \in 1..Len(idle) : idle[i].list # <<>>

\* a Pooled handle or a Connecting token that refers to the pool is outstanding
WeakHolders ==
    /\ \E h \in BagToSet(pooled) : h.pool /\ is_open(h.value)
    /\ \E k \in Keys : tokens[k] > 0

\* C18: once the PoolInner is dropped with its one-shot sender the sweeper
\* eventually returns, its poll after the drop does not sweep, a returned
\* sweeper stays returned, and the handles and tokens that are still out do
\* not bring the pool's state back.
C18_SweeperStops ==
    /\ (inner = "dropped" ~> idle_task # "spawned")
    /\ [][idle_task = "done" => idle_task' = "done"]_vars
    /\ [][inner = "dropped" => inner' = "dropped" /\ idle' = <<>> /\ ~Sweeps]_vars
    /\ [][IdleTaskPoll /\ inner = "dropped" => idle_task' = "done"]_vars

\* the sweeper returned while a handle and a token of the pool were still out
C18_Witness == idle_task = "done" /\ WeakHolders

\* the contract's order of the built-in parts, the innermost first
BuiltInOrder ==
    <<"ClientService", "Decompression", "ResponseBodyTimeout", "CookieManager",
      "FollowRedirect", "Retry">>

\* the built-in parts that the compiled features provide, in the contract's order
Compiled ==
    SelectSeq(BuiltInOrder,
              LAMBDA n : /\ n = "Decompression" => "decompression" \in features
                         /\ n = "CookieManager" => "cookies" \in features)

Built == client # <<>> /\ client[1].ref # "Err"

Pos(seq, x) == CHOOSE i \in 1..Len(seq) : seq[i] = x

Has(seq, x) == \E i \in 1..Len(seq) : seq[i] = x

\* whenever b was seen, a was seen earlier
SeenBefore(seq, a, b) == Has(seq, b) => Has(seq, a) /\ Pos(seq, a) < Pos(seq, b)

\* the layers registered with ClientBuilder::layer, in registration order
Registered == IF config.request_layers = <<>> THEN <<>> ELSE config.request_layers[1]

\* C19: the service that build returns is, from the innermost part outward,
\* the transport client, decompression, the response-body timeout, the cookie
\* manager, follow-redirect and retry (those of them that are compiled in),
\* then only user layers, then the request-start timeout and the error
\* mapping; a request is seen by retry, then redirect, then cookies, then the
\* transport, and the response by the same parts in the opposite order.
C19_StackOrder ==
    Built =>
        LET s == client[1].service
            n == Len(Compiled)
        IN /\ SubSeq(s, 1, n) = Compiled
           /\ \A i \in (n + 1)..(Len(s) - 2) : s[i] \in UserLayers
           /\ SubSeq(s, Len(s) - 1, Len(s)) = <<"Timeout", "MapErr">>
           /\ SeenBefore(flight.down, "Retry", "FollowRedirect")
           /\ SeenBefore(flight.down, "FollowRedirect", "ResponseBodyTimeout")
           /\ SeenBefore(flight.down, "ResponseBodyTimeout", "ClientService")
           /\ "cookies" \in features =>
                  /\ SeenBefore(flight.down, "FollowRedirect", "CookieManager")
                  /\ SeenBefore(flight.down, "CookieManager", "ClientService")
                  /\ SeenBefore(flight.up, "CookieManager", "FollowRedirect")
           /\ SeenBefore(flight.up, "ClientService", "ResponseBodyTimeout")
           /\ SeenBefore(flight.up, "ResponseBodyTimeout", "FollowRedirect")
           /\ SeenBefore(flight.up, "FollowRedirect", "Retry")
           /\ flight.dir = "response" => Len(flight.down) = Len(s)
           /\ flight.dir = "done" => Len(flight.up) = Len(s)

\* a request went through a client with every feature and a user layer, and
\* its response came back
C19_Witness ==
    /\ Built
    /\ features = {"decompression", "cookies"}
    /\ Registered # <<>>
    /\ flight.dir = "done"

\* C20: the user layers lie between the retry layer and the request-start
\* TimeoutLayer in registration order, the later registered further out, so a
\* request is seen by the timeout first and then by the user layers from the
\* last registered to the first; with no user layer the timeout wraps the
\* retry layer directly.
C20_UserLayers ==
    Built =>
        LET s == client[1].service
            r == Pos(s, "Retry")
        IN /\ SubSeq(s, r + 1, Len(s) - 2) = Registered
           /\ s[Len(s) - 1] = "Timeout"
           /\ (client[1].ref = "Generic") <=> (Registered = <<>>)
           /\ \A j \in 1..Len(Registered) :
                  Len(flight.down) >= 3 + Len(Registered) - j
                     => flight.down[3 + Len(Registered) - j] = Registered[j]
           /\ Len(flight.down) >= 2 => flight.down[2] = "Timeout"
           /\ \A i \in 1..Len(flight.down) : flight.down[i] \in UserLayers => i > 2

\* a request has passed two different user layers
C20_Witness ==
    /\ Built
    /\ Registered = <<"A", "B">>
    /\ Len(flight.down) >= 4

RECURSIVE SumLists(_)
SumLists(m) == IF m = <<>> THEN 0 ELSE Len(Head(m).list) + SumLists(Tail(m))

\* the idle connections of the pool, summed over all keys
TotalIdle == SumLists(idle)

\* C27: the pool never holds more than max_pool_size idle connections in
\* total, summed over all keys.
C27_TotalIdle == TotalIdle <= MaxPoolSize

\* C28: the receiver of a freshly registered waiter is Pending when
\* Checkout::checkout polls it for the first time: no first poll finds a value
\* sent or the sender dropped, whatever ran between the release of the lock and
\* the poll.
C28_AssertPending ==
    [][\A w \in 1..Len(checkouts) :
          CheckoutRegister(w) => checkouts[w].tx = "queued"]_vars

\* how many entries of the idle map hold connection id
RECURSIVE InList(_, _)
InList(list, id) ==
    IF list = <<>> THEN 0
    ELSE (IF Head(list).value.id = id THEN 1 ELSE 0) + InList(Tail(list), id)

RECURSIVE InIdle(_, _)
InIdle(m, id) == IF m = <<>> THEN 0 ELSE InList(Head(m).list, id) + InIdle(Tail(m), id)

\* how many receivers hold connection id, sent and not yet taken
InChannels(id) ==
    Cardinality({w \in 1..Len(checkouts) :
                    checkouts[w].rx # <<>> /\ checkouts[w].rx[1].id = id})

\* how many Pooled handles hold connection id
RECURSIVE InHandles(_, _)
InHandles(S, id) ==
    IF S = {} THEN 0
    ELSE LET h == CHOOSE x \in S : TRUE
         IN (IF h.value.id = id THEN CopiesIn(h, pooled) ELSE 0) + InHandles(S \ {h}, id)

Holders(id) == InIdle(idle, id) + InChannels(id) + InHandles(BagToSet(pooled), id)

\* the connections that are Unique: no place holds a sharable value of them
UniqueIds == {id \in 1..nconns : \A v \in Values : v.id = id => ~can_share(v)}

\* C29: a Unique connection is at any time in at most one place among the
\* idle lists, the channels of the waiting checkouts and the Pooled handles.
C29_OneHolder == \A id \in UniqueIds : Holders(id) <= 1

\* one Unique connection lies in the channel of a parked checkout and another
\* in an idle list, while the sweeper runs
C29_Witness ==
    /\ idle_task = "spawned"
    /\ \E w \in 1..Len(checkouts) :
          /\ checkouts[w].pc = "parked"
          /\ checkouts[w].rx # <<>>
          /\ ~can_share(checkouts[w].rx[1])
          /\ Holders(checkouts[w].rx[1].id) = 1
    /\ \E i \in 1..Len(idle) : \E j \in 1..Len(idle[i].list) :
          ~can_share(idle[i].list[j].value) /\ Holders(idle[i].list[j].value.id) = 1

\* checkout w is a live checkout of key k
CheckoutOf(w, k) == checkouts[w].key = k /\ checkouts[w].pc \in {"registered", "parked"}

\* checkout w is parked and its receiver is ready
ReadyParked(w) ==
    IF w <= Len(checkouts) THEN checkouts[w].pc = "parked" /\ checkouts[w].tx # "queued"
    ELSE FALSE

Resolved(w) == IF w <= Len(checkouts) THEN checkouts[w].pc = "done" ELSE FALSE

\* C30: the step that ends the in-flight Http2 token of k (pool.pooled() of
\* it, or its drop) leaves no checkout of k with a queued sender: each has a
\* value or a dropped sender in its receiver; and a parked checkout whose
\* receiver is ready eventually resolves.
C30_NoneDoesNotHang ==
    /\ [][\A k \in Keys :
            (k \in connecting /\ k \notin connecting')
            => \A w \in 1..Len(checkouts) :
                  CheckoutOf(w, k) => checkouts'[w].tx \in {"sent", "dropped"}]_vars
    /\ \A w \in 1..MaxCheckoutsRoomy : ReadyParked(w) ~> Resolved(w)

\* the token of key 1 was given to pool.pooled() with a Shared value while a
\* checkout of the key was parked: the checkout has the value in its channel,
\* and another checkout of the key has resolved before
C30_Witness ==
    /\ 1 \notin connecting
    /\ tokens[1] = 0
    /\ Len(checkouts) = 2
    /\ checkouts[1].pc = "done"
    /\ ReadyParked(2)
    /\ checkouts[2].rx # <<>>
    /\ can_share(checkouts[2].rx[1])

\* C21: a request is replayed only after an error marked canceled before
\* headers, with a body that clones and a positive budget, and each replay
\* takes one from the budget; so it is attempted at most http2_max_retry + 1
\* times, and every other result is returned as it is.
C21_RetryBudget ==
    /\ [](attempt.n <= config.http2_max_retry + 1)
    /\ [](attempt.state # "none" => attempt.n + attempt.budget = config.http2_max_retry + 1)
    /\ [][\A r \in Results :
            RetryResult(r)
            => IF r = "canceled before headers" /\ attempt.body # "stream"
                  /\ attempt.n <= config.http2_max_retry
               THEN attempt'.n = attempt.n + 1 /\ attempt'.state = "inflight"
               ELSE attempt'.n = attempt.n /\ attempt'.state = "returned"
                    /\ attempt'.result = r]_vars

\* with the default budget a request was attempted three times and the third
\* cancellation was returned
C21_Witness ==
    /\ config.http2_max_retry = DefaultMaxRetry
    /\ attempt.state = "returned"
    /\ attempt.result = "canceled before headers"
    /\ attempt.n = DefaultMaxRetry + 1

\* C22: the built resolver answers a name that has an override with the
\* address list configured last for it, in order, and the wrapped resolver is
\* not called; every other name is answered by the wrapped resolver, which is
\* the one given to dns_resolver if one was given; and resolve_to_addrs sets
\* the list of its domain whatever was set before.
C22_Overrides ==
    /\ [](lookup # NoLookup =>
            IF lookup.name \in DOMAIN config.dns_overrides
            THEN lookup.by = "overrides" /\ lookup.addrs = config.dns_overrides[lookup.name]
            ELSE /\ lookup.addrs = lookup.answer
                 /\ lookup.by = IF config.dns_resolver = <<>> THEN "GaiResolver"
                                ELSE config.dns_resolver[1])
    /\ [][\A d \in Domains, addrs \in AddrLists :
            ResolveToAddrs(d, addrs)
            => /\ config'.dns_overrides[d] = addrs
               /\ \A x \in DOMAIN config.dns_overrides \ {d} :
                     config'.dns_overrides[x] = config.dns_overrides[x]]_vars

\* a name with an override was resolved by a client that also has a custom
\* resolver, and the resolver would have said something else
C22_Witness ==
    /\ lookup.by = "overrides"
    /\ config.dns_resolver = <<"custom">>
    /\ lookup.addrs = <<2, 1>>
    /\ lookup.answer # lookup.addrs

\* ---- C23
\* the bytes that a base64 text stands for
RECURSIVE Unbase64(_)
Unbase64(t) ==
    IF Len(t) < 4 THEN <<>>
    ELSE << t[1] * 4 + (t[2] \div 16) >>
         \o (IF t[3] = 64 THEN <<>> ELSE << (t[2] % 16) * 16 + (t[3] \div 4) >>)
         \o (IF t[3] = 64 \/ t[4] = 64 THEN <<>> ELSE << (t[3] % 4) * 64 + t[4] >>)
         \o Unbase64(SubSeq(t, 5, Len(t)))

HasUserinfo(url) == url.username # <<>> \/ url.password # <<>>

\* the credentials "username:password" that the userinfo of a URL stands for
Credentials(url) ==
    percent_decode(url.username) \o <<58>>
    \o (IF url.password = <<>> THEN <<>> ELSE percent_decode(url.password[1]))

\* the request is Ok, its URL has no userinfo and its one Authorization
\* value is Basic with the credentials of the given URL
CarriesBasic(r, url) ==
    /\ r.ok
    /\ ~HasUserinfo(r.req.url)
    /\ Len(HGetAll(r.req.headers, "authorization")) = 1
    /\ LET v == HGetAll(r.req.headers, "authorization")[1].value
       IN v.text = "Basic " /\ Unbase64(v.token) = Credentials(url)

\* C23: a request made by Client::request from a URL with a username or a
\* password has a URL without userinfo and an Authorization header with
\* Basic credentials of exactly the percent-decoded username and password;
\* a request made from a URL without userinfo has that URL and no header
C23_UserinfoToBasic ==
    (request.state # "none" /\ request.given # <<>>) =>
        IF HasUserinfo(request.given[1])
        THEN CarriesBasic(request.request, request.given[1])
        ELSE request.request = Ok(Request_new(request.given[1]))

\* ---- C24
\* C24: once the RequestBuilder holds an error, every later call leaves that
\* error and changes neither the client nor the service; build() then returns
\* the error and send() resolves to it (Pending::Error) with the service never
\* called; once the ClientBuilder has recorded an error, the error stays
\* whatever setter is called and build() returns Err
C24_ErrorSticks ==
    /\ [][(request.state # "none" /\ ~request.request.ok) =>
            /\ request'.request = request.request
            /\ client' = client
            /\ flight' = flight
            /\ request'.pending \in {"", "Error"}]_vars
    /\ []((request.state = "sent" /\ ~request.request.ok) =>
            (request.pending = "Error" /\ flight = NoFlight))
    /\ [][config.error => config'.error]_vars
    /\ []((client # <<>> /\ config.error) => client[1].ref = "Err")

\* a request made from a text that is no URL was sent after MaxCalls setters
C24_Witness ==
    /\ request.state = "sent"
    /\ request.given = <<>>
    /\ request.request = Err("url")
    /\ request.calls = MaxCalls

\* a builder that recorded an error was built
C24_WitnessBuilder == client # <<>> /\ config.error /\ config.headers # <<>>

\* ---- C25
\* C25: ClientBuilder::emulation leaves in each of the default headers, the
\* original headers, the HTTP/1 config, the HTTP/2 config and the TLS config
\* the value of the emulation when the emulation has one, with nothing of
\* the value before, and leaves every other field and setting as it was
C25_EmulationReplaces ==
    [][\A e \in Emulations : Emulation(e) =>
        /\ config'.headers = IF e.default_headers # <<>> THEN e.default_headers[1] ELSE config.headers
        /\ config'.original_headers = IF e.original_headers # <<>> THEN e.original_headers
                                      ELSE config.original_headers
        /\ config'.http1_config = IF e.http1_config # <<>> THEN e.http1_config[1] ELSE config.http1_config
        /\ config'.http2_config = IF e.http2_config # <<>> THEN e.http2_config[1] ELSE config.http2_config
        /\ config'.tls_config = IF e.tls_config # <<>> THEN e.tls_config[1] ELSE config.tls_config
        /\ \A f \in {"error", "request_layers", "http2_max_retry", "dns_resolver",
                      "dns_overrides", "http_version_pref"} : config'[f] = config[f]]_vars

\* emulations gave the builder their headers, HTTP/1 config and TLS config;
\* its HTTP/2 config is the default still and http2_only was called
C25_Witness ==
    /\ config.headers = <<[name |-> "accept", values |-> <<Text("text")>>]>>
    /\ config.http1_config = "emulated"
    /\ config.http2_config = "default"
    /\ config.tls_config.profile = "emulated"
    /\ config.http_version_pref = "Http2"

\* ---- C26
\* the list that has exactly h2 and http/1.1
Both(a) == a # <<>> /\ Len(a[1]) = 2 /\ {a[1][1], a[1][2]} = {"h2", "http/1.1"}

\* C26 as stated: a built client advertises only http/1.1 after http1_only,
\* only h2 after http2_only, and both with the default preference
C26_AlpnFollowsPreference ==
    (client # <<>> /\ client[1].ref # "Err") =>
        CASE config.http_version_pref = "Http1" -> client[1].alpn_protos = << <<"http/1.1">> >>
          [] config.http_version_pref = "Http2" -> client[1].alpn_protos = << <<"h2">> >>
          [] OTHER -> Both(client[1].alpn_protos)

\* C26, amended: a built client advertises only http/1.1 after http1_only and
\* only h2 after http2_only, whatever the TLS config carried and the last of
\* the two calls deciding; with the default preference it advertises the list
\* of the TLS config in force at build, which is both for the default TLS config
C26_AlpnAtBuild ==
    /\ []((client # <<>> /\ client[1].ref # "Err") =>
            CASE config.http_version_pref = "Http1" -> client[1].alpn_protos = << <<"http/1.1">> >>
              [] config.http_version_pref = "Http2" -> client[1].alpn_protos = << <<"h2">> >>
              [] OTHER -> /\ client[1].alpn_protos = config.tls_config.alpn_protos
                          /\ config.tls_config.profile = "default" => Both(client[1].alpn_protos))
    /\ [][\A pref \in {"Http1", "Http2"} : HttpOnly(pref) => config'.http_version_pref = pref]_vars

\* a client built after http1_only and then http2_only, from an emulation
\* whose TLS config lists only http/1.1
C26_Witness ==
    /\ client # <<>> /\ client[1].ref # "Err"
    /\ config.http_version_pref = "Http2"
    /\ config.tls_config.alpn_protos = << <<"http/1.1">> >>
    /\ client[1].alpn_protos = << <<"h2">> >>

\* ---- C31
\* C31: sort_headers only reorders: after the call every name has the values
\* it had before the call, each as often as before and in the same relative
\* order, whether the name is listed in orig or not
C31_SameValues ==
    before # <<>> =>
        \A n \in HNames : HGetAll(headers, n) = HGetAll(before[1], n)

\* ---- C32
\* C32: between the operations of the pool (the lock free) no key has both an
\* idle list and a queue of waiters: while a checkout of k is queued no
\* connection of k lies idle
C32_NoIdleWhileWaiting ==
    \A k \in Keys : k \in LruKeys(idle) => k \notin DOMAIN waiters

\* a put found a queue whose checkouts were all dropped, took the queue out and
\* left the connection idle, while a checkout of the key was started earlier
C32_Witness ==
    /\ 1 \in LruKeys(idle)
    /\ 1 \notin DOMAIN waiters
    /\ \E w \in 1..Len(checkouts) : checkouts[w].pc = "dropping" /\ checkouts[w].key = 1

\* ---- C33
\* C33: in an enabled pool the connecting set is exactly the set of the keys
\* that have a live token of Http2, so that PoolInner::connected finds the key
\* in the set both when pool.pooled() finalises such a token with a sharable
\* connection and when such a token is dropped: its debug_assert never fails
C33_ConnectedAssert ==
    /\ [](is_enabled => connecting = {k \in Keys : tokens[k] > 0})
    /\ [](last.ret # "debug_assert")
    /\ [][\A k \in Keys : (SharedPooled(k) \/ (is_enabled /\ DropConnecting(k, TRUE)))
                           => k \in connecting /\ k \notin connecting']_vars

\* a token of Http2 was finalised by pool.pooled() with a sharable connection,
\* which a caller holds, and the next token of Http2 of the key is alive
C33_Witness ==
    /\ is_enabled
    /\ tokens[1] = 1
    /\ connecting = {1}
    /\ \E h \in BagToSet(pooled) : can_share(h.value) /\ ~h.is_reused /\ h.key = 1

\* ---- C34
\* C34: the checkout of k returns the entry of idle[k] nearest the back among
\* those that are open and not expired; the entries behind it, which are all
\* closed or expired, leave the list, and the entries before it stay as they
\* were, in their places
C34_PicksNewest ==
    [][CheckoutStart(1) =>
        LET list == IdleList(idle, 1)
            left == IdleList(idle', 1)
            got == BagToSet(pooled') \ BagToSet(pooled)
        IN /\ got # {} =>
                \E j \in 1..Len(list) :
                    /\ got = {reuse(1, list[j].value)}
                    /\ is_open(list[j].value) /\ ~expires(list[j].age)
                    /\ \A i \in (j + 1)..Len(list) :
                          /\ ~is_open(list[i].value) \/ expires(list[i].age)
                          /\ \A x \in 1..Len(left) : left[x].value.id # list[i].value.id
                    /\ Len(left) >= j - 1
                    /\ \A i \in 1..(j - 1) : left[i] = list[i]
           /\ got = {} =>
                /\ \A i \in 1..Len(list) : ~is_open(list[i].value) \/ expires(list[i].age)
                /\ left = <<>>]_vars

\* the checkout returned the middle entry of a list of three: the closed entry
\* behind it is gone and the entry before it is still there
C34_Witness ==
    /\ Len(checkouts) = 1
    /\ \E h \in BagToSet(pooled) : h.value.id = 2 /\ h.is_reused
    /\ Len(IdleList(idle, 1)) = 1
    /\ IdleList(idle, 1)[1].value.id = 1
    /\ is_open(IdleList(idle, 1)[1].value)

\* ---- C35
\* C35: every idle list is in the order of idle_at, the entry idle longest at
\* the front and the entry idle last at the back; so when the back entry is
\* expired, every entry of the list is
C35_OldestFirst ==
    \A x \in 1..Len(idle) :
        LET list == idle[x].list
        IN /\ \A i, j \in 1..Len(list) : i < j => list[i].age >= list[j].age
           /\ (list # <<>> /\ expires(list[Len(list)].age))
                => \A i \in 1..Len(list) : expires(list[i].age)

\* a list of two entries put at different times, in a pool whose sweeper runs
C35_Witness ==
    /\ idle_task = "spawned"
    /\ \E x \in 1..Len(idle) :
          /\ Len(idle[x].list) = 2
          /\ idle[x].list[1].age > idle[x].list[2].age

\* ---- C36
\* C36: whenever the pool lock is free, every key present in idle has a list of
\* at least one entry and every key present in waiters has a queue of at least
\* one sender
C36_NoEmptyContainers ==
    /\ \A x \in 1..Len(idle) : idle[x].list # <<>>
    /\ \A k \in DOMAIN waiters : waiters[k] # <<>>

\* dropping a checkout has just emptied the queue of its key, and the key has
\* left the map, in a pool whose sweeper runs
C36_Witness ==
    /\ last.op = "clean_waiters"
    /\ last.key \notin DOMAIN waiters
    /\ idle_task = "spawned"

\* ---- C37
\* C37: a handle, made by pooled() or by a checkout, refers to the pool exactly
\* when the pool is enabled and its connection is not sharable; so dropping a
\* handle of a sharable connection changes neither idle nor waiters and hands
\* nothing to a checkout, however many handles of the connection there are
C37_PoolRefOnlyUnique ==
    /\ [](\A h \in BagToSet(pooled) : h.pool <=> (is_enabled /\ ~can_share(h.value)))
    /\ [][\A h \in BagToSet(pooled) :
            (can_share(h.value) /\ DropPooled(h))
                => UNCHANGED <<idle, waiters, checkouts>>]_vars

\* the handle that pooled() made for a sharable connection is gone, a checkout
\* holds a reused handle of the connection, and the connection is still idle
C37_Witness ==
    \E h \in BagToSet(pooled) :
        /\ can_share(h.value)
        /\ h.is_reused
        /\ ~h.pool
        /\ \A g \in BagToSet(pooled) : g.value.id = h.value.id => g.is_reused
        /\ \E i \in 1..Len(IdleList(idle, h.key)) :
              IdleList(idle, h.key)[i].value.id = h.value.id

\* ---- C38
\* C38: a Connected made by Connected::new is healthy; the values that descend
\* from one Connected::new by Connected::clone share one flag, so poisoned()
\* answers the same on all of them; a call of poison() on one of them makes
\* poisoned() true on all of them; and a flag that is true stays true
C38_PoisonShared ==
    /\ [](\A i, j \in 1..Len(connected) :
             connected[i].origin = connected[j].origin
                => poisoned(connected[i]) = poisoned(connected[j]))
    /\ [][/\ ConnectedNew => ~pills'[connected'[Len(connected')].poisoned]
          /\ \A i \in 1..Len(connected) :
                ConnectedPoison(i)
                   => \A j \in 1..Len(connected') :
                         connected'[j].origin = connected[i].origin
                            => pills'[connected'[j].poisoned]
          /\ \A i \in 1..Len(connected) :
                poisoned(connected[i]) => pills'[connected'[i].poisoned]]_vars

\* three values of one connection, all poisoned, one of them changed by
\* proxy() and negotiated_h2()
C38_Witness ==
    /\ Len(connected) = 3
    /\ \A i \in 1..3 : connected[i].origin = 1 /\ poisoned(connected[i])
    /\ connected[2].is_proxied /\ connected[2].alpn = "H2"

\* ---- C39
\* the comma-separated elements of a line, each without the spaces and tabs at
\* its ends
C39_Elements(line) ==
    LET cuts == {0, Len(line) + 1} \cup {i \in 1..Len(line) : line[i] = 44}
        kept(p, q) == {i \in (p + 1)..(q - 1) : line[i] \notin {9, 32}}
        least(S) == CHOOSE i \in S : \A j \in S : i <= j
        most(S) == CHOOSE i \in S : \A j \in S : j <= i
    IN {IF kept(p, q) = {} THEN <<>> ELSE SubSeq(line, least(kept(p, q)), most(kept(p, q))) :
          <<p, q>> \in {c \in cuts \X cuts : c[1] < c[2] /\ \A i \in cuts : ~(c[1] < i /\ i < c[2])}}

\* the digits of a string of digits after its leading zeros
C39_Significant(e) ==
    LET nz == {i \in 1..Len(e) : e[i] # 48}
    IN IF nz = {} THEN <<>> ELSE SubSeq(e, CHOOSE i \in nz : \A j \in nz : i <= j, Len(e))

\* a string of digits whose number is at most 18446744073709551615
C39_FitsU64(e) ==
    LET d == C39_Significant(e)
        max == <<49, 56, 52, 52, 54, 55, 52, 52, 48, 55, 51, 55, 48, 57, 53, 53, 49, 54, 49, 53>>
    IN \/ Len(d) < 20
       \/ /\ Len(d) = 20
          /\ \A i \in 1..20 : d[i] > max[i] => \E j \in 1..(i - 1) : d[j] < max[j]

\* the number a string of at most 20 significant digits writes, as a u64
C39_Number(e) ==
    LET d == C39_Significant(e)
        digit(k) == IF k <= Len(d) THEN d[Len(d) + 1 - k] - 48 ELSE 0
        pow[i \in 0..6] == IF i = 0 THEN 1 ELSE 10 * pow[i - 1]
        part(from) == LET term[i \in 0..7] ==
                              IF i = 7 THEN 0 ELSE digit(from + i) * pow[i] + term[i + 1]
                      IN term[0]
    IN <<part(15), part(8), part(1)>>

\* every element of every Content-Length value is a string of digits that
\* writes n and fits in a u64, and there is such a value
C39_AllWrite(n) ==
    /\ HGetAll(headers, 1) # <<>>
    /\ \A l \in 1..Len(HGetAll(headers, 1)) :
          \A e \in C39_Elements(HGetAll(headers, 1)[l]) :
             /\ e # <<>>
             /\ \A i \in 1..Len(e) : e[i] \in 48..57
             /\ C39_FitsU64(e)
             /\ C39_Number(e) = n

\* C39: content_length_parse_all returns Some(n) exactly when the map has a
\* Content-Length value and every comma-separated element of every value is,
\* trimmed, a non-empty string of ASCII digits that writes n and fits in 64
\* bits; in every other case (a sign, an empty element, two numbers, a number
\* above u64::MAX) it returns None
C39_ContentLength ==
    parsed # <<>> =>
        /\ parsed[1] # <<>> => C39_AllWrite(parsed[1][1])
        /\ (\E l \in 1..Len(HGetAll(headers, 1)) :
              \E e \in C39_Elements(HGetAll(headers, 1)[l]) :
                 C39_FitsU64(e) /\ C39_AllWrite(C39_Number(e)))
               => parsed[1] # <<>>

\* two values, one of them u64::MAX written with leading zeros and white
\* space next to a second element, gave Some(u64::MAX)
C39_Witness ==
    /\ parsed = << << <<184467, 4407370, 9551615>> >> >>
    /\ Len(HGetAll(headers, 1)) = 2
    /\ \E l \in 1..2 : 44 \in {HGetAll(headers, 1)[l][i] : i \in 1..Len(HGetAll(headers, 1)[l])}
    /\ \E l \in 1..2 : HGetAll(headers, 1)[l][1] = 32
====
